---------------------------- MODULE Spec2Model ----------------------------
(***************************************************************************)
(* Reference-counted object lifetime of swift-bindgen: the handles Owned,  *)
(* Unowned and Weak of swift-rt/src/obj.rs over the runtime entry points   *)
(* declared in swift-sys/src/heap.rs.                                      *)
(*                                                                         *)
(* Memory is a set of addresses.  Heap objects live at the addresses Objs; *)
(* every Unowned handle is itself a cell of memory at UnownedAddr(u); a    *)
(* weak reference slot is a cell named by its index.  A runtime entry      *)
(* point acts on the header found at the address it is handed.  An address *)
(* that holds no heap object header (the cell of a handle) has no header:  *)
(* the call reads or writes whatever lies there, which is recorded in ub   *)
(* and, for a read, yields an indeterminate value.  Executions are followed*)
(* up to, not beyond, the first use of a header that was already returned  *)
(* to the allocator.                                                       *)
(*                                                                         *)
(* The other parts of the library have a specification each: symbol        *)
(* demangling into a caller's Vec<u8> (SpecDemangle), boxes and            *)
(* swift_makeBoxUnique (SpecBox), swift_once (SpecOnce), the value witness *)
(* entries (SpecValues) and StaticString (SpecString).  A Vec<u8> is its   *)
(* length, its capacity and the bytes up to its length; a length beyond    *)
(* the capacity is a write outside the allocation and is recorded in ub.   *)
(*                                                                         *)
(* Further specifications: the atomic and non-atomic retain operations in  *)
(* a single-threaded sequence (SpecRetain), the conversions between owning *)
(* handle types (SpecConvert), ObjectIdentifier over class instances that  *)
(* are allocated at addresses the allocator reuses (SpecArena), and the    *)
(* MetadataKind constants and predicates (SpecKind).  A u32 is modelled at *)
(* a width of IntBits bits and a c_int as the signed integer of that       *)
(* width.                                                                  *)
(***************************************************************************)
EXTENDS Integers, Sequences, FiniteSets, TLC

\* Bounds of the model.
MaxStrong == 3
MaxUnowned == 2
MaxWeak == 2
MaxRetains == 13
NThreads == 3
Rounds == 2
NDroppers == 2
MaxSym == 3
MaxCap == 3
MaxBufLen == 7
MaxPayload == 2
MaxBoxes == 3
MaxBoxStrong == 3
MaxCalls == 2
NBufs == 3
MaxValue == 2
MaxStrLen == 3
MaxN == 3
MaxCount == 5
IntBits == 2
NAddrs == 2
MaxInstances == 3
MaxIsa == 2

\* The null pointer (an absent object).
NULL == 0

\* The addresses of heap objects: the model follows one object.
Objs == {1}
UnownedCells == 1..MaxUnowned
Slots == 1..MaxWeak

\* The address of the memory cell that holds the Unowned handle u.
UnownedAddr(u) == 1 + u

VARIABLES
  heap,      \* heap[o]: the header and lifetime record of the object at o
  slots,     \* slots[w]: the content of weak reference slot w
  ub,        \* kinds of undefined behaviour the execution has invoked
  owned,     \* owned[o]: number of live Owned handles wrapping o
  unownedH,  \* unownedH[u]: pointer wrapped by the Unowned handle in cell u
  weakH,     \* weakH[w]: number of live Weak handles wrapping slot w
  clones,    \* clones[o]: Owned handles made by clone so far (history)
  retains,   \* calls of Owned::retain so far (history)
  releases,  \* calls of Owned::release so far (history)
  pc,        \* pc[t]: where thread t stands in its program
  iter,      \* iter[t]: rounds thread t has completed
  last,      \* the result of the last operation, if it returned one
  buffer,    \* the Vec<u8> handed to demangle_into
  boxes,     \* the boxes on the heap and the buffer that points to one
  once,      \* the swift_once_t token and the runs of its function
  values,    \* values[b]: the object in buffer b of a value type, if valid
  sstr,      \* the StaticString under test
  kinds,     \* kinds[o]: the owning handles of o that are not plain Owned
  arena      \* class instances, their addresses and their ObjectIdentifiers

\* The state of the other parts of the library.
ext == <<buffer, boxes, once, values, sstr, kinds, arena>>

\* The variables of the sequence and thread programs.
aux == <<retains, releases, pc, iter, ext>>

vars == <<heap, slots, ub, owned, unownedH, weakH, clones, last, aux>>

\* A header that was never allocated.
NoObject ==
  [alloc |-> FALSE, strong |-> 0, unowned |-> 0, weak |-> 0, flag |-> FALSE,
   destroyed |-> 0, deallocs |-> 0, freed |-> 0, log |-> <<>>]

\* A weak reference slot that holds nothing.
NoSlot == [st |-> "uninit", tgt |-> NULL]

\* The last operation returned nothing.
NoOp == [op |-> "none", h |-> NULL, ret |-> NULL]

\* An empty Vec<u8> without allocation: Vec::new().
Vec_new == [len |-> 0, cap |-> 0, bytes |-> <<>>]

\* No box is allocated and the buffer holds no box pointer.
NoBoxes == [heap |-> <<>>, buf |-> NULL, allocs |-> 0]

\* A once token nothing was run on.
NoOnce == [state |-> "fresh", runs |-> 0]

\* Option<T>
None == [some |-> FALSE, val |-> <<>>]

Some(x) == [some |-> TRUE, val |-> x]

\* No StaticString was made.
NoString == None

\* No owning handle other than plain Owned ones.
NoKinds == [o \in Objs |-> [raw |-> 0, any |-> 0, typed |-> 0]]

\* The addresses at which class instances are allocated.
Addrs == 1..NAddrs

\* No class instance was allocated and no ObjectIdentifier made.
NoArena ==
  [mem |-> [a \in Addrs |-> [inst |-> 0, strong |-> 0]], made |-> 0, ids |-> {}]

\* The other parts of the library are not in use.
NoExt ==
  /\ buffer = Vec_new
  /\ boxes = NoBoxes
  /\ once = NoOnce
  /\ values = <<>>
  /\ sstr = NoString
  /\ kinds = NoKinds
  /\ arena = NoArena

\* The part of the state the runtime entry points act on.
RT == [heap |-> heap, slots |-> slots, ub |-> ub]

Commit(r) ==
  /\ heap' = r.heap
  /\ slots' = r.slots
  /\ ub' = r.ub

-----------------------------------------------------------------------------
(* The runtime: swift-sys/src/heap.rs *)

\* The call was handed an address that holds no heap object header.
Wild(r) == [r EXCEPT !.ub = @ \cup {"wild"}]

\* The header at a is valid memory: allocated and not returned yet.
Valid(r, a) == a \in Objs /\ r.heap[a].alloc /\ r.heap[a].freed = 0

Event(r, a, e) == [r EXCEPT !.heap[a].log = Append(@, e)]

\* swift_allocObject: a header with retain count 1.
swift_allocObject(r, a) ==
  [r EXCEPT !.heap[a] = [NoObject EXCEPT !.alloc = TRUE, !.strong = 1]]

\* The memory goes back to the allocator once the object was deallocated
\* and neither an unowned nor a weak reference is outstanding.
FreeIfUnreferenced(r, a) ==
  LET h == r.heap[a] IN
  IF h.deallocs > 0 /\ h.freed = 0 /\ h.unowned = 0 /\ h.weak = 0
    THEN Event([r EXCEPT !.heap[a].freed = @ + 1], a, "free")
    ELSE r

\* swift_deallocObject
swift_deallocObject(r, a) ==
  FreeIfUnreferenced(Event([r EXCEPT !.heap[a].deallocs = @ + 1], a, "dealloc"), a)

\* object->metadata->destroy(object): the payload is torn down.
destroy(r, a) == Event([r EXCEPT !.heap[a].destroyed = @ + 1], a, "destroy")

\* Faulty variant: the flag is flipped, so a second call clears it.
swift_setDeallocating_flip(r, a) ==
  IF a = NULL THEN r
  ELSE IF a \notin Objs THEN Wild(r)
  ELSE Event([r EXCEPT !.heap[a].flag = ~@], a, "flag")

\* swift_setDeallocating
swift_setDeallocating(r, a) ==
  IF a = NULL THEN r
  ELSE IF a \notin Objs THEN Wild(r)
  ELSE IF r.heap[a].flag THEN r
  ELSE Event([r EXCEPT !.heap[a].flag = TRUE], a, "flag")

\* The retain count reached zero: the object enters deallocation.
BeginDeallocation(r, a) == swift_setDeallocating(Event(r, a, "zero"), a)

\* Faulty variant: the allocation is handed back before the payload is destroyed.
ZeroTransition_deallocFirst(r, a) == destroy(swift_deallocObject(r, a), a)

\* What swift_release does once the count reached zero:
\* object->metadata->destroy(object), then swift_deallocObject.
ZeroTransition(r, a) == swift_deallocObject(destroy(r, a), a)

swift_retain_n(r, a, n) ==
  IF a = NULL THEN r
  ELSE IF a \notin Objs THEN Wild(r)
  ELSE [r EXCEPT !.heap[a].strong = @ + n]

swift_retain(r, a) == swift_retain_n(r, a, 1)

swift_nonatomic_retain(r, a) == swift_retain_n(r, a, 1)

\* Faulty variant: the count is raised once, whatever n is.
swift_nonatomic_retain_n_once(r, a, n) == swift_nonatomic_retain(r, a)

\* swift_nonatomic_retain_n: performs swift_nonatomic_retain n times, as a
\* plain load of the count followed by a plain store.
swift_nonatomic_retain_n(r, a, n) ==
  IF a = NULL THEN r
  ELSE IF a \notin Objs THEN Wild(r)
  ELSE LET count == r.heap[a].strong IN
       [r EXCEPT !.heap[a].strong = count + n]

\* The atomic step of swift_release_n: the decrement, which on reaching
\* zero marks the object as deallocating in the same step.
swift_release_dec(r, a, n) ==
  LET r1 == [r EXCEPT !.heap[a].strong = @ - n] IN
  IF r1.heap[a].strong = 0 THEN BeginDeallocation(r1, a) ELSE r1

swift_release_n(r, a, n) ==
  IF a = NULL THEN r
  ELSE IF a \notin Objs THEN Wild(r)
  ELSE LET r1 == swift_release_dec(r, a, n) IN
       IF r1.heap[a].strong = 0 THEN ZeroTransition(r1, a) ELSE r1

swift_release(r, a) == swift_release_n(r, a, 1)

swift_retainCount(r, a) == r.heap[a].strong

swift_unownedRetain_n(r, a, n) ==
  IF a = NULL THEN r
  ELSE IF a \notin Objs THEN Wild(r)
  ELSE [r EXCEPT !.heap[a].unowned = @ + n]

swift_unownedRetain(r, a) == swift_unownedRetain_n(r, a, 1)

\* swift_nonatomic_unownedRetain_n: a plain load of the unowned count
\* followed by a plain store.
swift_nonatomic_unownedRetain_n(r, a, n) ==
  IF a = NULL THEN r
  ELSE IF a \notin Objs THEN Wild(r)
  ELSE LET count == r.heap[a].unowned IN
       [r EXCEPT !.heap[a].unowned = count + n]

swift_nonatomic_unownedRetain(r, a) == swift_nonatomic_unownedRetain_n(r, a, 1)

swift_unownedRelease_n(r, a, n) ==
  IF a = NULL THEN r
  ELSE IF a \notin Objs THEN Wild(r)
  ELSE FreeIfUnreferenced([r EXCEPT !.heap[a].unowned = @ - n], a)

swift_unownedRelease(r, a) == swift_unownedRelease_n(r, a, 1)

\* swift_unownedRetainCount; v is what the memory yields where a holds no header.
swift_unownedRetainCount(r, a, v) ==
  IF a \in Objs THEN r.heap[a].unowned ELSE v

swift_weakRetainCount(r, a) == r.heap[a].weak

\* swift_weakInit
swift_weakInit(r, w, a) ==
  [r EXCEPT !.slots[w] = [st |-> "bound", tgt |-> a],
            !.heap[a].weak = @ + 1]

\* Faulty variant: the load does not look at the deallocating flag.
weakLoadResult_ignoresFlag(r, w) == r.slots[w].tgt

\* The object swift_weakLoadStrong returns for slot w.
weakLoadResult(r, w) ==
  LET a == r.slots[w].tgt IN
  IF a = NULL \/ r.heap[a].flag THEN NULL ELSE a

\* Faulty variant: the load hands out the object without retaining it.
swift_weakLoadStrong_noRetain(r, w) == r

\* swift_weakLoadStrong: the runtime state after the call.
swift_weakLoadStrong(r, w) == swift_retain(r, weakLoadResult(r, w))

\* The slot gives up its reference; what it holds afterwards is left.
weakUnbind(r, w, left) ==
  LET a == r.slots[w].tgt
      r0 == IF r.slots[w].st = "uninit"
              THEN [r EXCEPT !.ub = @ \cup {"uninit_slot"}] ELSE r
      r1 == [r0 EXCEPT !.slots[w] = [st |-> "uninit", tgt |-> left]]
  IN IF a = NULL \/ ~Valid(r1, a) \/ r1.heap[a].weak = 0 THEN r1
     ELSE FreeIfUnreferenced([r1 EXCEPT !.heap[a].weak = @ - 1], a)

\* swift_weakTakeStrong: loads, then leaves the slot uninitialized; stale
\* tells whether the bits of the old reference are still in the slot.
swift_weakTakeStrong(r, w, stale) ==
  weakUnbind(swift_weakLoadStrong(r, w), w,
             IF stale THEN r.slots[w].tgt ELSE NULL)

\* swift_weakDestroy
swift_weakDestroy(r, w) == weakUnbind(r, w, NULL)

-----------------------------------------------------------------------------
(* The handles: swift-rt/src/obj.rs *)

\* Owned::as_ptr: the wrapped pointer.
Owned_as_ptr(p) == p

Owned_retain(r, p) == swift_retain(r, Owned_as_ptr(p))

Owned_nonatomic_retain(r, p) == swift_nonatomic_retain(r, Owned_as_ptr(p))

Owned_retain_n(r, p, n) == swift_retain_n(r, Owned_as_ptr(p), n)

\* Faulty variant: the unowned retain count is the one that is raised.
Owned_nonatomic_retain_n_unowned(r, p, n) ==
  swift_nonatomic_unownedRetain_n(r, Owned_as_ptr(p), n)

Owned_nonatomic_retain_n(r, p, n) ==
  swift_nonatomic_retain_n(r, Owned_as_ptr(p), n)

\* Faulty variant: release gives up two units of the strong count.
Owned_release_two(r, p) == swift_release_n(r, Owned_as_ptr(p), 2)

Owned_release(r, p) == swift_release(r, Owned_as_ptr(p))

Owned_set_deallocating(r, p) == swift_setDeallocating(r, Owned_as_ptr(p))

\* Faulty variant: the clone copies the pointer without retaining.
Owned_clone_noRetain(r, p) == r

\* impl Clone for Owned: retain, then a second handle of the same pointer.
Owned_clone(r, p) == Owned_retain(r, p)

Owned_nonatomic_clone(r, p) == Owned_nonatomic_retain(r, p)

\* Faulty variant: the drop releases twice.
Owned_drop_twice(r, p) == Owned_release(Owned_release(r, p), p)

\* impl Drop for Owned
Owned_drop(r, p) == Owned_release(r, p)

\* Unowned::as_ptr: `self as *const Self`, the address of the handle.
Unowned_as_ptr(u) == UnownedAddr(u)

Unowned_retain(r, u) == swift_unownedRetain(r, Unowned_as_ptr(u))

\* The values of a u32, at a width of IntBits bits.
U32 == 0..(2^IntBits - 1)

\* `n as c_int` for a u32 n: the same bits read as a signed integer.
as_c_int(n) == IF n < 2^(IntBits - 1) THEN n ELSE n - 2^IntBits

Unowned_retain_n(r, u, n) ==
  swift_unownedRetain_n(r, Unowned_as_ptr(u), as_c_int(n))

Unowned_nonatomic_retain(r, u) ==
  swift_nonatomic_unownedRetain(r, Unowned_as_ptr(u))

Unowned_nonatomic_retain_n(r, u, n) ==
  swift_nonatomic_unownedRetain_n(r, Unowned_as_ptr(u), as_c_int(n))

Unowned_release(r, u) == swift_unownedRelease(r, Unowned_as_ptr(u))

\* impl Clone for Unowned
Unowned_clone(r, u) == swift_unownedRetain(r, Unowned_as_ptr(u))

Unowned_nonatomic_clone(r, u) == Unowned_nonatomic_retain(r, u)

\* impl Drop for Unowned
Unowned_drop(r, u) == Unowned_release(r, u)

\* Unowned::retain_count
Unowned_retain_count(r, u, v) == swift_unownedRetainCount(r, Unowned_as_ptr(u), v)

\* Faulty variant: load wraps the pointer in the slot, whatever the runtime returned.
Weak_load_ret_unchecked(r, w) == r.slots[w].tgt

\* Weak::load: the Option<Owned> returned (NULL is None).
Weak_load_ret(r, w) == weakLoadResult(r, w)

\* Faulty variant: the Owned that is handed out is made by a retain of the
\* pointer the runtime returned.
Weak_load_retains(r, w) ==
  swift_retain(swift_weakLoadStrong(r, w), weakLoadResult(r, w))

Weak_load(r, w) == swift_weakLoadStrong(r, w)

\* impl Drop for Weak
Weak_drop(r, w) == swift_weakDestroy(r, w)

\* Weak::take: swift_weakTakeStrong, then self goes out of scope.
Weak_take(r, w, stale) == Weak_drop(swift_weakTakeStrong(r, w, stale), w)

\* What a call yields when it panics instead of returning.
Panic == -1

\* Faulty variant: the clone is a second handle of the same slot.
Weak_clone_copy(w) == w

\* impl Clone for Weak: unimplemented!(..), the call panics.
Weak_clone(w) == Panic

\* Faulty variant: take borrows the handle, which stays live.
Weak_take_self_kept(n) == n

\* Weak::take(self): the handle is moved into the call and is gone after it.
Weak_take_self(n) == n - 1

-----------------------------------------------------------------------------
(* The handle operations as steps of a single-threaded program *)

\* No sequence or thread program runs.
NoProgram ==
  /\ retains = 0
  /\ releases = 0
  /\ pc = <<>>
  /\ iter = <<>>

Init ==
  /\ heap = [o \in Objs |-> NoObject]
  /\ slots = [w \in Slots |-> NoSlot]
  /\ ub = {}
  /\ owned = [o \in Objs |-> 0]
  /\ unownedH = [u \in UnownedCells |-> NULL]
  /\ weakH = [w \in Slots |-> 0]
  /\ clones = [o \in Objs |-> 0]
  /\ last = NoOp
  /\ NoProgram
  /\ NoExt

\* swift_allocObject, adopted by Owned::from_ptr.
AllocObject(o) ==
  /\ ~heap[o].alloc
  /\ Commit(swift_allocObject(RT, o))
  /\ owned' = [owned EXCEPT ![o] = 1]
  /\ last' = NoOp
  /\ UNCHANGED <<unownedH, weakH, clones, aux>>

OwnedClone(o) ==
  /\ owned[o] > 0
  /\ heap[o].strong < MaxStrong
  /\ Commit(Owned_clone(RT, o))
  /\ owned' = [owned EXCEPT ![o] = @ + 1]
  /\ clones' = [clones EXCEPT ![o] = IF @ < MaxStrong THEN @ + 1 ELSE @]
  /\ last' = NoOp
  /\ UNCHANGED <<unownedH, weakH, aux>>

OwnedNonatomicClone(o) ==
  /\ owned[o] > 0
  /\ heap[o].strong < MaxStrong
  /\ Commit(Owned_nonatomic_clone(RT, o))
  /\ owned' = [owned EXCEPT ![o] = @ + 1]
  /\ clones' = [clones EXCEPT ![o] = IF @ < MaxStrong THEN @ + 1 ELSE @]
  /\ last' = NoOp
  /\ UNCHANGED <<unownedH, weakH, aux>>

OwnedDrop(o) ==
  /\ owned[o] > 0
  /\ Commit(Owned_drop(RT, o))
  /\ owned' = [owned EXCEPT ![o] = @ - 1]
  /\ last' = NoOp
  /\ UNCHANGED <<unownedH, weakH, clones, aux>>

\* Owned::set_deallocating, called under its precondition: the retain count
\* is 1 and the caller holds the only handle.
OwnedSetDeallocating(o) ==
  /\ owned[o] = 1
  /\ heap[o].strong = 1
  /\ ~heap[o].flag
  /\ Commit(Owned_set_deallocating(RT, o))
  /\ last' = NoOp
  /\ UNCHANGED <<owned, unownedH, weakH, clones, aux>>

\* An unowned reference counted by swift_unownedRetain on the object,
\* adopted by Unowned::from_ptr into cell u.
UnownedAdopt(u, o) ==
  /\ unownedH[u] = NULL
  /\ owned[o] > 0
  /\ heap[o].unowned < MaxUnowned
  /\ Commit(swift_unownedRetain(RT, o))
  /\ unownedH' = [unownedH EXCEPT ![u] = o]
  /\ last' = NoOp
  /\ UNCHANGED <<owned, weakH, clones, aux>>

\* impl Clone for Unowned: the clone of the handle in cell u goes to cell v.
UnownedClone(u, v) ==
  /\ unownedH[u] # NULL
  /\ unownedH[v] = NULL
  /\ Commit(Unowned_clone(RT, u))
  /\ unownedH' = [unownedH EXCEPT ![v] = unownedH[u]]
  /\ last' = NoOp
  /\ UNCHANGED <<owned, weakH, clones, aux>>

UnownedDrop(u) ==
  /\ unownedH[u] # NULL
  /\ Commit(Unowned_drop(RT, u))
  /\ unownedH' = [unownedH EXCEPT ![u] = NULL]
  /\ last' = NoOp
  /\ UNCHANGED <<owned, weakH, clones, aux>>

\* Unowned::retain_count: a read through Unowned::as_ptr.
UnownedRetainCount(u) ==
  /\ unownedH[u] # NULL
  /\ \E v \in 0..MaxUnowned :
       last' = [op |-> "UnownedRetainCount", h |-> u,
                ret |-> Unowned_retain_count(RT, u, v)]
  /\ ub' = IF Unowned_as_ptr(u) \in Objs THEN ub ELSE ub \cup {"wild"}
  /\ UNCHANGED <<heap, slots, owned, unownedH, weakH, clones, aux>>

\* swift_weakInit on slot w, which a Weak handle then wraps.
WeakInit(w, o) ==
  /\ weakH[w] = 0
  /\ owned[o] > 0
  /\ Commit(swift_weakInit(RT, w, o))
  /\ weakH' = [weakH EXCEPT ![w] = @ + 1]
  /\ last' = NoOp
  /\ UNCHANGED <<owned, unownedH, clones, aux>>

\* The Owned handle a load or take hands out, if any.
Adopt(ret) == IF ret = NULL THEN owned ELSE [owned EXCEPT ![ret] = @ + 1]

\* The header slot w refers to is still memory of the object.
SlotReadable(w) == slots[w].tgt # NULL /\ Valid(RT, slots[w].tgt)

WeakLoad(w) ==
  /\ weakH[w] > 0
  /\ SlotReadable(w)
  /\ Weak_load_ret(RT, w) # NULL => heap[Weak_load_ret(RT, w)].strong < MaxStrong
  /\ Commit(Weak_load(RT, w))
  /\ owned' = Adopt(Weak_load_ret(RT, w))
  /\ last' = [op |-> "WeakLoad", h |-> w, ret |-> Weak_load_ret(RT, w)]
  /\ UNCHANGED <<unownedH, weakH, clones, aux>>

WeakTake(w) ==
  /\ weakH[w] > 0
  /\ SlotReadable(w)
  /\ Weak_load_ret(RT, w) # NULL => heap[Weak_load_ret(RT, w)].strong < MaxStrong
  /\ \E stale \in BOOLEAN : Commit(Weak_take(RT, w, stale))
  /\ owned' = Adopt(Weak_load_ret(RT, w))
  /\ weakH' = [weakH EXCEPT ![w] = Weak_take_self(@)]
  /\ last' = [op |-> "WeakTake", h |-> w, ret |-> Weak_load_ret(RT, w)]
  /\ UNCHANGED <<unownedH, clones, aux>>

WeakDrop(w) ==
  /\ weakH[w] > 0
  /\ SlotReadable(w)
  /\ Commit(Weak_drop(RT, w))
  /\ weakH' = [weakH EXCEPT ![w] = @ - 1]
  /\ last' = NoOp
  /\ UNCHANGED <<owned, unownedH, clones, aux>>

\* impl Clone for Weak, called on the handle of slot w.
WeakClone(w) ==
  /\ weakH[w] > 0
  /\ last' = [op |-> "WeakClone", h |-> w, ret |-> Weak_clone(w)]
  /\ weakH' = IF Weak_clone(w) = Panic THEN weakH
              ELSE [weakH EXCEPT ![Weak_clone(w)] = @ + 1]
  /\ UNCHANGED <<heap, slots, ub, owned, unownedH, clones, aux>>

Next ==
  \/ \E o \in Objs : AllocObject(o)
  \/ \E o \in Objs : OwnedClone(o)
  \/ \E o \in Objs : OwnedNonatomicClone(o)
  \/ \E o \in Objs : OwnedDrop(o)
  \/ \E o \in Objs : OwnedSetDeallocating(o)
  \/ \E u \in UnownedCells, o \in Objs : UnownedAdopt(u, o)
  \/ \E u, v \in UnownedCells : UnownedClone(u, v)
  \/ \E u \in UnownedCells : UnownedDrop(u)
  \/ \E u \in UnownedCells : UnownedRetainCount(u)
  \/ \E w \in Slots, o \in Objs : WeakInit(w, o)
  \/ \E w \in Slots : WeakLoad(w)
  \/ \E w \in Slots : WeakTake(w)
  \/ \E w \in Slots : WeakDrop(w)
  \/ \E w \in Slots : WeakClone(w)

Spec == Init /\ [][Next]_vars

-----------------------------------------------------------------------------
(* Owned::retain and Owned::release applied in sequence to a fresh object *)

TheObject == CHOOSE o \in Objs : TRUE

InitRC ==
  /\ heap = [o \in Objs |-> [NoObject EXCEPT !.alloc = TRUE, !.strong = 1]]
  /\ owned = [o \in Objs |-> 1]
  /\ slots = [w \in Slots |-> NoSlot]
  /\ ub = {}
  /\ unownedH = [u \in UnownedCells |-> NULL]
  /\ weakH = [w \in Slots |-> 0]
  /\ clones = [o \in Objs |-> 0]
  /\ last = NoOp
  /\ NoProgram
  /\ NoExt

\* Owned::retain
RcRetain ==
  /\ heap[TheObject].strong > 0
  /\ retains < MaxRetains
  /\ Commit(Owned_retain(RT, TheObject))
  /\ retains' = retains + 1
  /\ UNCHANGED <<owned, unownedH, weakH, clones, last, releases, pc, iter, ext>>

\* Owned::release; the sequence ends with the release that reaches zero.
RcRelease ==
  /\ heap[TheObject].strong > 0
  /\ Commit(Owned_release(RT, TheObject))
  /\ releases' = releases + 1
  /\ UNCHANGED <<owned, unownedH, weakH, clones, last, retains, pc, iter, ext>>

NextRC == RcRetain \/ RcRelease

SpecRC == InitRC /\ [][NextRC]_vars

\* C1: after a sequence of retains and releases on a fresh object the
\* strong count is 1 + (retains - releases), and the release that brings it
\* to 0 triggers teardown exactly once.
C1_CountIsOnePlusRetainsMinusReleases ==
  /\ heap[TheObject].strong = 1 + retains - releases
  /\ heap[TheObject].destroyed = (IF heap[TheObject].strong = 0 THEN 1 ELSE 0)

C1_Witness ==
  /\ retains >= 2
  /\ releases = retains + 1
  /\ heap[TheObject].strong = 0
  /\ heap[TheObject].destroyed = 1

-----------------------------------------------------------------------------
(* Threads that each clone and drop a handle of the same object *)

Threads == 1..NThreads

InitThreads ==
  /\ heap = [o \in Objs |-> [NoObject EXCEPT !.alloc = TRUE, !.strong = 1]]
  /\ owned = [o \in Objs |-> 1]
  /\ slots = [w \in Slots |-> NoSlot]
  /\ ub = {}
  /\ unownedH = [u \in UnownedCells |-> NULL]
  /\ weakH = [w \in Slots |-> 0]
  /\ clones = [o \in Objs |-> 0]
  /\ last = NoOp
  /\ retains = 0
  /\ releases = 0
  /\ pc = [t \in Threads |-> "idle"]
  /\ iter = [t \in Threads |-> 0]
  /\ NoExt

\* Thread t clones the handle: one atomic retain.
ThreadClone(t) ==
  /\ pc[t] = "idle"
  /\ iter[t] < Rounds
  /\ Commit(Owned_clone(RT, TheObject))
  /\ owned' = [owned EXCEPT ![TheObject] = @ + 1]
  /\ pc' = [pc EXCEPT ![t] = "holding"]
  /\ UNCHANGED <<unownedH, weakH, clones, last, retains, releases, iter, ext>>

\* Thread t drops its clone: one atomic release.
ThreadDrop(t) ==
  /\ pc[t] = "holding"
  /\ Commit(Owned_drop(RT, TheObject))
  /\ owned' = [owned EXCEPT ![TheObject] = @ - 1]
  /\ pc' = [pc EXCEPT ![t] = "idle"]
  /\ iter' = [iter EXCEPT ![t] = @ + 1]
  /\ UNCHANGED <<unownedH, weakH, clones, last, retains, releases, ext>>

NextThreads == \E t \in Threads : ThreadClone(t) \/ ThreadDrop(t)

SpecThreads == InitThreads /\ [][NextThreads]_vars

AllThreadsFinished == \A t \in Threads : pc[t] = "idle" /\ iter[t] = Rounds

\* C5: with N threads each M times cloning and dropping a handle of an
\* object held by a handle that outlives them, the strong count stays in
\* [1, 1 + N*M], no teardown occurs, and the count is 1 when all finished.
C5_CountBoundedAndRestored ==
  /\ heap[TheObject].strong \in 1..(1 + NThreads * Rounds)
  /\ heap[TheObject].destroyed = 0
  /\ ~heap[TheObject].flag
  /\ AllThreadsFinished => heap[TheObject].strong = 1

C5_Witness ==
  /\ AllThreadsFinished
  /\ heap[TheObject].strong = 1
  /\ heap[TheObject].destroyed = 0

-----------------------------------------------------------------------------
(* Threads dropping the last Owned handles while others load from weak slots *)

Droppers == 1..NDroppers

\* The thread that owns the Weak handle of slot w.
LoaderOf(w) == NDroppers + w

Loaders == {LoaderOf(w) : w \in Slots}

SlotOf(t) == t - NDroppers

\* Where a thread goes once it holds no Owned handle.
AfterRelease(t) == IF t \in Droppers THEN "done" ELSE "weakdrop"

InitRace ==
  /\ heap = [o \in Objs |-> [NoObject EXCEPT !.alloc = TRUE,
                                             !.strong = NDroppers,
                                             !.weak = MaxWeak]]
  /\ owned = [o \in Objs |-> NDroppers]
  /\ slots = [w \in Slots |-> [st |-> "bound", tgt |-> TheObject]]
  /\ ub = {}
  /\ unownedH = [u \in UnownedCells |-> NULL]
  /\ weakH = [w \in Slots |-> 1]
  /\ clones = [o \in Objs |-> 0]
  /\ last = NoOp
  /\ retains = 0
  /\ releases = 0
  /\ pc = [t \in Droppers \cup Loaders |->
             IF t \in Droppers THEN "holding" ELSE "load"]
  /\ iter = <<>>
  /\ NoExt

\* The atomic step of the release in impl Drop for Owned.
RaceRelease(t) ==
  /\ pc[t] = "holding"
  /\ LET r == swift_release_dec(RT, Owned_as_ptr(TheObject), 1) IN
       /\ Commit(r)
       /\ pc' = [pc EXCEPT ![t] = IF r.heap[TheObject].strong = 0
                                    THEN "destroy" ELSE AfterRelease(t)]
  /\ owned' = [owned EXCEPT ![TheObject] = @ - 1]
  /\ UNCHANGED <<unownedH, weakH, clones, last, retains, releases, iter, ext>>

\* The releasing thread runs the destroy entry of the type.
RaceDestroy(t) ==
  /\ pc[t] = "destroy"
  /\ Commit(destroy(RT, TheObject))
  /\ pc' = [pc EXCEPT ![t] = "dealloc"]
  /\ UNCHANGED <<owned, unownedH, weakH, clones, last, retains, releases, iter, ext>>

\* The releasing thread calls swift_deallocObject.
RaceDealloc(t) ==
  /\ pc[t] = "dealloc"
  /\ Commit(swift_deallocObject(RT, TheObject))
  /\ pc' = [pc EXCEPT ![t] = AfterRelease(t)]
  /\ UNCHANGED <<owned, unownedH, weakH, clones, last, retains, releases, iter, ext>>

\* Weak::load: one call of swift_weakLoadStrong.
RaceLoad(t) ==
  /\ pc[t] = "load"
  /\ Commit(Weak_load(RT, SlotOf(t)))
  /\ owned' = Adopt(Weak_load_ret(RT, SlotOf(t)))
  /\ last' = [op |-> "WeakLoad", h |-> SlotOf(t),
              ret |-> Weak_load_ret(RT, SlotOf(t))]
  /\ pc' = [pc EXCEPT ![t] = IF Weak_load_ret(RT, SlotOf(t)) = NULL
                               THEN "weakdrop" ELSE "holding"]
  /\ UNCHANGED <<unownedH, weakH, clones, retains, releases, iter, ext>>

\* impl Drop for Weak
RaceWeakDrop(t) ==
  /\ pc[t] = "weakdrop"
  /\ Commit(Weak_drop(RT, SlotOf(t)))
  /\ weakH' = [weakH EXCEPT ![SlotOf(t)] = @ - 1]
  /\ pc' = [pc EXCEPT ![t] = "done"]
  /\ UNCHANGED <<owned, unownedH, clones, last, retains, releases, iter, ext>>

NextRace ==
  \/ \E t \in Droppers \cup Loaders : RaceRelease(t)
  \/ \E t \in Droppers \cup Loaders : RaceDestroy(t)
  \/ \E t \in Droppers \cup Loaders : RaceDealloc(t)
  \/ \E t \in Loaders : RaceLoad(t)
  \/ \E t \in Loaders : RaceWeakDrop(t)

SpecRace == InitRace /\ [][NextRace]_vars

\* C4: a release reaching zero and a concurrent Weak::load are linearizable
\* with respect to the deallocating flag: a load that comes first retains
\* and the release is then no zero transition; a load that comes after
\* returns None; no Owned handle exists to an object whose flag is set or
\* whose teardown has begun, and the object is torn down at most once.
C4_LoadAndReleaseLinearizable ==
  [][/\ \A t \in Loaders : RaceLoad(t) =>
          IF heap[TheObject].flag
            THEN last'.ret = NULL /\ heap' = heap
            ELSE /\ last'.ret = TheObject
                 /\ heap'[TheObject].strong = heap[TheObject].strong + 1
                 /\ ~heap'[TheObject].flag
     /\ owned'[TheObject] >= 1 =>
          (~heap'[TheObject].flag /\ heap'[TheObject].destroyed = 0)
     /\ heap'[TheObject].destroyed <= 1]_vars

\* A load returned None while the teardown begun by a release was under way.
C4_Witness ==
  /\ last.op = "WeakLoad"
  /\ last.ret = NULL
  /\ heap[TheObject].flag
  /\ heap[TheObject].destroyed = 0
  /\ \E t \in Droppers \cup Loaders : pc[t] = "destroy"

-----------------------------------------------------------------------------
(* Properties of the handle operations *)

\* Position of event e in the lifetime log l, 0 when it has not happened.
Pos(l, e) == IF \E i \in 1..Len(l) : l[i] = e
               THEN CHOOSE i \in 1..Len(l) : l[i] = e ELSE 0

\* Event b, when it happened, came after event a.
Before(l, a, b) == Pos(l, b) # 0 => (Pos(l, a) # 0 /\ Pos(l, a) < Pos(l, b))

\* C2: cloning an Owned handle k times and dropping all k+1 handles tears
\* the object down exactly once, at the drop of the last handle and not
\* before, and no handle to the object remains afterwards.
C2_OneTeardownAtLastDrop ==
  \A o \in Objs :
    heap[o].alloc => heap[o].destroyed = (IF owned[o] = 0 THEN 1 ELSE 0)

C2_Witness ==
  \E o \in Objs : clones[o] >= 2 /\ owned[o] = 0 /\ heap[o].destroyed = 1

\* C3 as stated: Weak::load returns None whenever the last Owned handle was
\* dropped and Some(new Owned) whenever at least one Owned handle is alive;
\* the object is not torn down while an Owned handle exists.
C3_LoadSomeIffOwnedAlive ==
  [][/\ \A w \in Slots : (last'.op = "WeakLoad" /\ last'.h = w) =>
          LET o == slots[w].tgt IN
            /\ owned[o] = 0 => last'.ret = NULL
            /\ owned[o] >= 1 => last'.ret = o
     /\ \A o \in Objs : owned'[o] >= 1 => heap'[o].destroyed = 0]_vars

\* C3 as amended: Weak::load returns None whenever the last Owned handle
\* was dropped or the deallocating flag was set by set_deallocating, and
\* Some(new Owned) whenever an Owned handle is alive and the flag is clear;
\* the object is not torn down while an Owned handle exists.
C3_LoadSomeIffAliveAndNotDeallocating ==
  [][/\ \A w \in Slots : (last'.op = "WeakLoad" /\ last'.h = w) =>
          LET o == slots[w].tgt IN
            /\ owned[o] = 0 => last'.ret = NULL
            /\ (owned[o] >= 1 /\ heap[o].flag) => last'.ret = NULL
            /\ (owned[o] >= 1 /\ ~heap[o].flag) =>
                 (last'.ret = o /\ owned'[o] = owned[o] + 1)
     /\ \A o \in Objs :
          owned'[o] >= 1 => (heap'[o].destroyed = 0 /\ heap'[o].freed = 0)]_vars

C3_Witness ==
  /\ last.op = "WeakLoad"
  /\ last.ret \in Objs
  /\ owned[last.ret] >= 2
  /\ heap[last.ret].destroyed = 0

\* C6: Weak::take is equivalent to Weak::load followed by dropping the Weak
\* handle: the same Some/None result, the target's weak counter lower by
\* exactly one, the slot unbound.
C6_TakeIsLoadThenDrop ==
  [][\A w \in Slots : WeakTake(w) =>
       LET o == slots[w].tgt
           viaLoad == Weak_drop(Weak_load(RT, w), w)
       IN /\ last'.ret = Weak_load_ret(RT, w)
          /\ heap'[o].weak = heap[o].weak - 1
          /\ heap'[o].weak = viaLoad.heap[o].weak
          /\ slots'[w].st = "uninit"]_vars

\* C7: cloning an Unowned handle raises the unowned count of the object it
\* wraps by exactly 1 and dropping it lowers that count by exactly 1;
\* neither changes the strong count or touches any other address.
C7_UnownedCloneDropCountTheObject ==
  [][/\ \A u, v \in UnownedCells : UnownedClone(u, v) =>
          LET o == unownedH[u] IN
            /\ heap'[o].unowned = heap[o].unowned + 1
            /\ heap'[o].strong = heap[o].strong
            /\ ub' = ub
     /\ \A u \in UnownedCells : UnownedDrop(u) =>
          LET o == unownedH[u] IN
            /\ heap'[o].unowned = heap[o].unowned - 1
            /\ heap'[o].strong = heap[o].strong
            /\ ub' = ub]_vars

\* C8: after every Owned handle was dropped while an Unowned handle is
\* live, Unowned::retain_count reads the header of the referenced object,
\* which is still valid memory, and returns that object's unowned count.
C8_UnownedRetainCountReadsObject ==
  [][\A u \in UnownedCells :
       (UnownedRetainCount(u) /\ owned[unownedH[u]] = 0) =>
         /\ Valid(RT, unownedH[u])
         /\ last'.ret = heap[unownedH[u]].unowned
         /\ ub' = ub]_vars

\* C9: the allocation of an object is never returned to the allocator
\* while an Unowned handle or a bound weak slot refers to it.
C9_HeaderOutlivesReferences ==
  \A o \in Objs :
    heap[o].freed > 0 =>
      /\ \A u \in UnownedCells : unownedH[u] # o
      /\ \A w \in Slots : ~(slots[w].st = "bound" /\ slots[w].tgt = o)

\* C10 as stated: the strong count reaches zero, then the deallocating flag
\* is set, then the payload is destroyed, then deallocate is called;
\* deallocate is never called with the flag clear or the payload alive.
C10_ZeroFlagDestroyDealloc ==
  \A o \in Objs :
    LET l == heap[o].log IN
      /\ Before(l, "zero", "flag")
      /\ Before(l, "flag", "destroy")
      /\ Before(l, "destroy", "dealloc")
      /\ heap[o].deallocs > 0 => (heap[o].flag /\ heap[o].destroyed > 0)

\* C10 as amended: the deallocating flag is set at the zero transition or
\* earlier (by set_deallocating at count 1); the payload is destroyed after
\* the count reached zero and the flag was set, and deallocate is called
\* after that, once; never with the flag clear or the payload alive.
C10_FlagAndZeroThenDestroyThenDealloc ==
  \A o \in Objs :
    LET l == heap[o].log IN
      /\ Before(l, "zero", "destroy")
      /\ Before(l, "flag", "destroy")
      /\ Before(l, "destroy", "dealloc")
      /\ Before(l, "dealloc", "free")
      /\ Pos(l, "zero") # 0 => Pos(l, "flag") \in 1..(Pos(l, "zero") + 1)
      /\ heap[o].deallocs <= 1
      /\ heap[o].deallocs > 0 => (heap[o].flag /\ heap[o].destroyed = 1)

C10_Witness ==
  \E o \in Objs :
    /\ heap[o].log = <<"flag", "zero", "destroy", "dealloc", "free">>
    /\ heap[o].freed = 1

\* C11: clone on a Weak handle panics and returns no second handle; the
\* slot, the handle it was called on and the three counters of the target
\* are as before.
C11_WeakClonePanics ==
  [][\A w \in Slots : WeakClone(w) =>
       /\ last'.ret = Panic
       /\ weakH' = weakH
       /\ slots' = slots
       /\ heap' = heap]_vars

C11_Witness ==
  /\ last.op = "WeakClone"
  /\ last.ret = Panic
  /\ weakH[last.h] = 1
  /\ slots[last.h].st = "bound"
  /\ heap[slots[last.h].tgt].weak >= 1

\* C12: each live Owned handle owns one unit of the strong count: the count
\* is at least the number of live Owned handles, so at least 1 while one
\* exists, and the object is not torn down while one exists.
C12_OwnedHandlesOwnStrongUnits ==
  \A o \in Objs :
    owned[o] >= 1 =>
      /\ heap[o].strong >= owned[o]
      /\ heap[o].strong >= 1
      /\ heap[o].destroyed = 0
      /\ heap[o].deallocs = 0

\* A take handed out an Owned handle next to a clone and the original.
C12_Witness ==
  /\ last.op = "WeakTake"
  /\ last.ret \in Objs
  /\ owned[last.ret] = MaxStrong
  /\ heap[last.ret].strong = MaxStrong
  /\ clones[last.ret] >= 1

\* C13: a weak reference slot is referenced by at most one live Weak
\* handle: no operation of Weak makes a second handle of a slot, and take
\* consumes the handle it is called on.
C13_SlotHasAtMostOneHandle ==
  /\ \A w \in Slots : weakH[w] <= 1
  /\ last.op \in {"WeakLoad", "WeakClone"} => weakH[last.h] = 1
  /\ last.op = "WeakTake" => weakH[last.h] = 0

\* A take consumed the handle of one slot while the other slot has its own.
C13_Witness ==
  /\ last.op = "WeakTake"
  /\ weakH[last.h] = 0
  /\ \E w \in Slots : w # last.h /\ weakH[w] = 1

-----------------------------------------------------------------------------
(* Symbol demangling: swift-rt/src/sym.rs over swift-sys/src/sym.rs *)

\* The handle variables, which the other parts of the library leave alone.
life == <<heap, slots, owned, unownedH, weakH, clones>>

\* No object, no handle.
NoLife ==
  /\ heap = [o \in Objs |-> NoObject]
  /\ slots = [w \in Slots |-> NoSlot]
  /\ owned = [o \in Objs |-> 0]
  /\ unownedH = [u \in UnownedCells |-> NULL]
  /\ weakH = [w \in Slots |-> 0]
  /\ clones = [o \in Objs |-> 0]

Min(a, b) == IF a < b THEN a ELSE b

Max(a, b) == IF a < b THEN b ELSE a

\* The inputs: symbol 0 is no mangled name, symbol s > 0 is a mangled name.
Symbols == 0..MaxSym

IsSwiftSymbol(sym) == sym > 0

\* The demangled name of a mangled symbol, as bytes; symbol s has s bytes.
Demangled(sym) == [i \in 1..sym |-> 16 * sym + i]

\* A byte that was in the buffer before any call.
PriorByte == 255

\* Faulty variant: an input that is no mangled name demangles to the empty name.
swift_demangle_neverNull(sym, size) ==
  LET name == IF IsSwiftSymbol(sym) THEN Demangled(sym) ELSE <<>> IN
  [null |-> FALSE,
   out |-> SubSeq(name, 1, Min(size, Len(name))),
   size |-> IF Len(name) > size THEN Len(name) ELSE size]

\* swift_demangle with an output buffer of the given size: null for an input
\* that is no mangled name; otherwise the name, truncated to the size, is
\* written and a size that was too small is updated to the size needed.
swift_demangle(sym, size) ==
  IF ~IsSwiftSymbol(sym)
    THEN [null |-> TRUE, out |-> <<>>, size |-> size]
    ELSE LET name == Demangled(sym) IN
         [null |-> FALSE,
          out |-> SubSeq(name, 1, Min(size, Len(name))),
          size |-> IF Len(name) > size THEN Len(name) ELSE size]

\* Vec::with_capacity(c) holding k bytes of earlier content.
Vec_with(c, k) == [len |-> k, cap |-> c, bytes |-> [i \in 1..k |-> PriorByte]]

\* The capacities Vec::reserve(additional) may leave: unchanged when
\* capacity - len >= additional, else at least len + additional (exactly
\* that, or the doubled capacity when it is larger).
Vec_reserve(v, additional) ==
  IF v.cap - v.len >= additional THEN {v.cap}
  ELSE {v.len + additional, Max(2 * v.cap, v.len + additional)}

\* The result of a call that failed with DemangleError.
Err == [ok |-> FALSE, val |-> <<>>]

Ok(val) == [ok |-> TRUE, val |-> val]

\* Faulty variant: the second call is told the capacity that remained, not
\* the length the first call reported.
demangle_into_sizeFromCapacity(sym, v, newcap) ==
  LET old_len == v.len
      rem_capacity == v.cap - old_len
      probe == swift_demangle(sym, 0)
      demangled_len == probe.size
      cap1 == IF rem_capacity < demangled_len THEN newcap ELSE v.cap
      total_len == old_len + demangled_len
      written == swift_demangle(sym, rem_capacity).out
      mem == SubSeq(v.bytes, 1, old_len) \o written \o
               [i \in 1..(demangled_len - Len(written)) |-> NULL]
  IN IF probe.null THEN [buffer |-> v, ret |-> Err]
     ELSE [buffer |-> [len |-> total_len, cap |-> cap1, bytes |-> mem],
           ret |-> Ok(SubSeq(mem, old_len + 1, total_len))]

\* demangle_into(symbol, buffer); newcap is the capacity after the reserve,
\* if it is called.
demangle_into(sym, v, newcap) ==
  LET old_len == v.len
      rem_capacity == v.cap - old_len
      probe == swift_demangle(sym, 0)
      demangled_len == probe.size
      cap1 == IF rem_capacity < demangled_len THEN newcap ELSE v.cap
      total_len == old_len + demangled_len
      written == swift_demangle(sym, demangled_len).out
      mem == SubSeq(v.bytes, 1, old_len) \o written \o
               [i \in 1..(demangled_len - Len(written)) |-> NULL]
  IN IF probe.null THEN [buffer |-> v, ret |-> Err]
     ELSE [buffer |-> [len |-> total_len, cap |-> cap1, bytes |-> mem],
           ret |-> Ok(SubSeq(mem, old_len + 1, total_len))]

\* The capacities the reserve in demangle_into may leave.
demangle_into_caps(sym, v) ==
  LET demangled_len == swift_demangle(sym, 0).size
      rem_capacity == v.cap - v.len
  IN IF rem_capacity < demangled_len
       THEN Vec_reserve(v, demangled_len - rem_capacity) ELSE {v.cap}

\* demangle(symbol): demangle_into on a new String.
demangle(sym) ==
  LET r == demangle_into(sym, Vec_new,
                         CHOOSE c \in demangle_into_caps(sym, Vec_new) : TRUE)
  IN IF r.ret.ok THEN Ok(r.buffer.bytes) ELSE Err

InitDemangle ==
  /\ \E c \in 0..MaxCap : \E k \in 0..c : buffer = Vec_with(c, k)
  /\ ub = {}
  /\ last = NoOp
  /\ NoLife
  /\ NoProgram
  /\ boxes = NoBoxes
  /\ once = NoOnce
  /\ values = <<>>
  /\ sstr = NoString
  /\ kinds = NoKinds
  /\ arena = NoArena

\* demangle_into(symbol, buffer) on the caller's buffer.  A length set
\* beyond the capacity is a write outside the allocation.
DemangleInto(sym) ==
  /\ buffer.len <= buffer.cap
  /\ buffer.len + swift_demangle(sym, 0).size <= MaxBufLen
  /\ \E newcap \in demangle_into_caps(sym, buffer) :
       LET r == demangle_into(sym, buffer, newcap) IN
         /\ buffer' = r.buffer
         /\ last' = [op |-> "demangle_into", h |-> sym, ret |-> r.ret,
                     before |-> buffer]
         /\ ub' = IF r.buffer.len > r.buffer.cap
                    THEN ub \cup {"overflow"} ELSE ub
  /\ UNCHANGED <<life, retains, releases, pc, iter, boxes, once, values, sstr, kinds, arena>>

\* demangle(symbol): the buffer is a String of its own.
Demangle(sym) ==
  /\ buffer.len <= buffer.cap
  /\ last' = [op |-> "demangle", h |-> sym, ret |-> demangle(sym),
              before |-> Vec_new]
  /\ UNCHANGED <<life, ub, retains, releases, pc, iter, ext>>

NextDemangle ==
  \/ \E sym \in Symbols : DemangleInto(sym)
  \/ \E sym \in Symbols : Demangle(sym)

SpecDemangle == InitDemangle /\ [][NextDemangle]_vars

\* C14: for a mangled symbol of demangled length D, demangle_into on an
\* empty buffer of capacity zero and on an empty buffer of capacity D give
\* the same bytes, D of them; for an input that is no mangled name both
\* demangle and demangle_into return the DemangleError.
C14_DemangleRoundTrip ==
  [][\A sym \in Symbols :
       LET D == Len(Demangled(sym)) IN
       /\ (DemangleInto(sym) /\ IsSwiftSymbol(sym) /\ buffer = Vec_new) =>
            /\ last'.ret.ok
            /\ Len(last'.ret.val) = D
            /\ \A c \in demangle_into_caps(sym, Vec_with(D, 0)) :
                 demangle_into(sym, Vec_with(Len(last'.ret.val), 0), c).ret
                   = last'.ret
       /\ (DemangleInto(sym) /\ IsSwiftSymbol(sym) /\ buffer = Vec_with(D, 0)) =>
            \A c \in demangle_into_caps(sym, Vec_new) :
              last'.ret = demangle_into(sym, Vec_new, c).ret
       /\ (DemangleInto(sym) /\ ~IsSwiftSymbol(sym)) =>
            (last'.ret = Err /\ demangle(sym) = Err)
       /\ (Demangle(sym) /\ ~IsSwiftSymbol(sym)) => last'.ret = Err]_vars

\* The longest name was demangled into an empty buffer of capacity zero.
C14_Witness ==
  /\ last.op = "demangle_into"
  /\ last.before = Vec_new
  /\ last.ret.ok
  /\ Len(last.ret.val) = MaxSym
  /\ buffer.bytes = last.ret.val

\* C15: on success demangle_into leaves the first old_len bytes of the
\* buffer as they were, appends the demangled bytes after them inside the
\* buffer, and returns buffer[old_len .. old_len + D].
C15_BufferReuseKeepsContent ==
  [][\A sym \in Symbols :
       (DemangleInto(sym) /\ last'.ret.ok) =>
         LET old_len == buffer.len
             D == Len(Demangled(sym))
         IN /\ buffer'.len = old_len + D
            /\ buffer'.len <= buffer'.cap
            /\ SubSeq(buffer'.bytes, 1, old_len) = buffer.bytes
            /\ SubSeq(buffer'.bytes, old_len + 1, old_len + D) = Demangled(sym)
            /\ last'.ret.val = SubSeq(buffer'.bytes, old_len + 1, old_len + D)
            /\ ub' = ub]_vars

\* C16: for an input that is no mangled name demangle_into returns
\* Err(DemangleError), which no success returns, and the length, capacity
\* and contents of the buffer are as before the call.
C16_ErrorLeavesBufferAlone ==
  [][\A sym \in Symbols :
       (DemangleInto(sym) /\ ~IsSwiftSymbol(sym)) =>
         /\ last'.ret = Err
         /\ buffer' = buffer
         /\ ub' = ub
         /\ \A good \in Symbols : IsSwiftSymbol(good) =>
              \A c \in demangle_into_caps(good, buffer) :
                demangle_into(good, buffer, c).ret # Err]_vars

\* The call failed on a buffer that held content and had room left.
C16_Witness ==
  /\ last.op = "demangle_into"
  /\ ~IsSwiftSymbol(last.h)
  /\ last.ret = Err
  /\ buffer.len > 0
  /\ buffer.len < buffer.cap
  /\ buffer = last.before

-----------------------------------------------------------------------------
(* Boxes: swift_allocBox and swift_makeBoxUnique of swift-sys/src/heap.rs *)

\* The values a box may hold.
Payloads == 1..MaxPayload

\* The addresses of the boxes allocated so far.
BoxAddrs(bx) == 1..Len(bx.heap)

\* swift_allocBox: a new heap object with retain count 1; its value buffer
\* is then initialized with v.  The new box is the last one of the heap.
swift_allocBox(bx, v) ==
  [bx EXCEPT !.heap = Append(@, [strong |-> 1, payload |-> v]),
             !.allocs = @ + 1]

\* Faulty variant: every box passes the uniqueness check.
isUniquelyReferenced_always(bx, b) == TRUE

\* The uniqueness check on a box pointer: its retain count is 1.
isUniquelyReferenced(bx, b) == bx.heap[b].strong = 1

\* A new box that holds a copy of the value in box b; the buffer is made to
\* point to it.  released tells whether the reference the buffer held to
\* the old box is given up.
copyBox(bx, b, released) ==
  LET bx1 == swift_allocBox(bx, bx.heap[b].payload)
      bx2 == [bx1 EXCEPT !.buf = Len(bx1.heap)]
  IN IF released THEN [bx2 EXCEPT !.heap[b].strong = @ - 1] ELSE bx2

\* swift_makeBoxUnique(buffer, ..): the boxes after the call and the box
\* pointer of the BoxPair returned.
swift_makeBoxUnique(bx, released) ==
  LET b == bx.buf IN
  IF isUniquelyReferenced(bx, b)
    THEN [boxes |-> bx, ret |-> b]
    ELSE LET bx1 == copyBox(bx, b, released) IN
         [boxes |-> bx1, ret |-> bx1.buf]

InitBox ==
  /\ boxes = NoBoxes
  /\ ub = {}
  /\ last = NoOp
  /\ NoLife
  /\ NoProgram
  /\ buffer = Vec_new
  /\ once = NoOnce
  /\ values = <<>>
  /\ sstr = NoString
  /\ kinds = NoKinds
  /\ arena = NoArena

\* swift_allocBox, the value initialized with v, the pointer put in the buffer.
BoxAlloc(v) ==
  /\ boxes.buf = NULL
  /\ boxes.allocs < MaxBoxes
  /\ boxes' = [swift_allocBox(boxes, v) EXCEPT !.buf = Len(boxes.heap) + 1]
  /\ last' = NoOp
  /\ UNCHANGED <<life, ub, retains, releases, pc, iter, buffer, once, values, sstr, kinds, arena>>

\* swift_retain on the box of the buffer: a second holder of the same box.
BoxRetain ==
  /\ boxes.buf # NULL
  /\ boxes.heap[boxes.buf].strong < MaxBoxStrong
  /\ boxes' = [boxes EXCEPT !.heap[boxes.buf].strong = @ + 1]
  /\ last' = NoOp
  /\ UNCHANGED <<life, ub, retains, releases, pc, iter, buffer, once, values, sstr, kinds, arena>>

\* swift_release by a holder of box b other than the buffer.
BoxRelease(b) ==
  /\ b \in BoxAddrs(boxes)
  /\ boxes.heap[b].strong > (IF b = boxes.buf THEN 1 ELSE 0)
  /\ boxes' = [boxes EXCEPT !.heap[b].strong = @ - 1]
  /\ last' = NoOp
  /\ UNCHANGED <<life, ub, retains, releases, pc, iter, buffer, once, values, sstr, kinds, arena>>

\* swift_makeBoxUnique on the buffer.
MakeBoxUnique ==
  /\ boxes.buf # NULL
  /\ isUniquelyReferenced(boxes, boxes.buf) \/ boxes.allocs < MaxBoxes
  /\ \E released \in BOOLEAN :
       LET r == swift_makeBoxUnique(boxes, released) IN
         /\ boxes' = r.boxes
         /\ last' = [op |-> "make_box_unique", h |-> boxes.buf, ret |-> r.ret]
  /\ UNCHANGED <<life, ub, retains, releases, pc, iter, buffer, once, values, sstr, kinds, arena>>

NextBox ==
  \/ \E v \in Payloads : BoxAlloc(v)
  \/ BoxRetain
  \/ \E b \in 1..MaxBoxes : BoxRelease(b)
  \/ MakeBoxUnique

SpecBox == InitBox /\ [][NextBox]_vars

\* C17: make_box_unique on a buffer whose box has strong count 1 returns
\* that box pointer and allocates nothing; on a box with a greater count it
\* returns a newly allocated box that holds a copy of the payload and stores
\* that pointer in the buffer.
C17_MakeBoxUnique ==
  [][MakeBoxUnique =>
       LET b == boxes.buf IN
       IF boxes.heap[b].strong = 1
         THEN /\ last'.ret = b
              /\ boxes' = boxes
         ELSE /\ last'.ret # b
              /\ last'.ret \notin BoxAddrs(boxes)
              /\ last'.ret \in BoxAddrs(boxes')
              /\ boxes'.allocs = boxes.allocs + 1
              /\ boxes'.heap[last'.ret].payload = boxes.heap[b].payload
              /\ boxes'.heap[last'.ret].strong = 1
              /\ boxes'.heap[b].payload = boxes.heap[b].payload
              /\ boxes'.buf = last'.ret]_vars

\* The call on a shared box gave the buffer a new box with the same payload.
C17_Witness ==
  /\ last.op = "make_box_unique"
  /\ last.ret # last.h
  /\ boxes.buf = last.ret
  /\ boxes.heap[last.ret].payload = boxes.heap[last.h].payload
  /\ boxes.heap[last.h].strong >= 1
  /\ boxes.allocs = 2

-----------------------------------------------------------------------------
(* One-time initialization: swift_once of swift-sys/src/sync.rs *)

\* Faulty variant: a caller runs the function unless a run has completed.
once_runs_function_unlessDone(o) == o.state # "done"

\* swift_once runs the function in the call that finds the token untouched.
once_runs_function(o) == o.state = "fresh"

\* A call that does not run the function returns once the run has completed.
once_returns(o) == o.state = "done"

InitOnce ==
  /\ once = NoOnce
  /\ pc = [t \in Threads |-> "idle"]
  /\ iter = [t \in Threads |-> 0]
  /\ retains = 0
  /\ releases = 0
  /\ ub = {}
  /\ last = NoOp
  /\ NoLife
  /\ buffer = Vec_new
  /\ boxes = NoBoxes
  /\ values = <<>>
  /\ sstr = NoString
  /\ kinds = NoKinds
  /\ arena = NoArena

\* Thread t calls swift_once(predicate, function, context).
OnceCall(t) ==
  /\ pc[t] = "idle"
  /\ iter[t] < MaxCalls
  /\ pc' = [pc EXCEPT ![t] = "calling"]
  /\ UNCHANGED <<life, ub, last, retains, releases, iter, ext>>

\* The call of thread t takes the token and is the one to run the function.
OnceEnter(t) ==
  /\ pc[t] = "calling"
  /\ once_runs_function(once)
  /\ once' = [once EXCEPT !.state = "running"]
  /\ pc' = [pc EXCEPT ![t] = "function"]
  /\ UNCHANGED <<life, ub, last, retains, releases, iter, buffer, boxes, values, sstr, kinds, arena>>

\* function(context) runs in thread t.
OnceFunction(t) ==
  /\ pc[t] = "function"
  /\ once' = [once EXCEPT !.runs = @ + 1]
  /\ pc' = [pc EXCEPT ![t] = "complete"]
  /\ UNCHANGED <<life, ub, last, retains, releases, iter, buffer, boxes, values, sstr, kinds, arena>>

\* The run has completed: the token says so and the call of t returns.
OnceComplete(t) ==
  /\ pc[t] = "complete"
  /\ once' = [once EXCEPT !.state = "done"]
  /\ pc' = [pc EXCEPT ![t] = "idle"]
  /\ iter' = [iter EXCEPT ![t] = @ + 1]
  /\ UNCHANGED <<life, ub, last, retains, releases, buffer, boxes, values, sstr, kinds, arena>>

\* A call that did not run the function returns.
OnceReturn(t) ==
  /\ pc[t] = "calling"
  /\ ~once_runs_function(once)
  /\ once_returns(once)
  /\ pc' = [pc EXCEPT ![t] = "idle"]
  /\ iter' = [iter EXCEPT ![t] = @ + 1]
  /\ UNCHANGED <<life, ub, last, retains, releases, ext>>

NextOnce ==
  \/ \E t \in Threads : OnceCall(t)
  \/ \E t \in Threads : OnceEnter(t)
  \/ \E t \in Threads : OnceFunction(t)
  \/ \E t \in Threads : OnceComplete(t)
  \/ \E t \in Threads : OnceReturn(t)

SpecOnce == InitOnce /\ [][NextOnce]_vars

\* C18: with any number of threads racing to call swift_once on one token
\* the function runs once in total, and every call returns only after that
\* run has completed.
C18_OnceRunsOnceBeforeAnyReturn ==
  /\ once.runs <= 1
  /\ Cardinality({t \in Threads : pc[t] \in {"function", "complete"}}) <= 1
  /\ \A t \in Threads :
       iter[t] > 0 => (once.runs = 1 /\ once.state = "done")
  /\ once.state = "done" => once.runs = 1

\* The function ran in one thread, whose call has not returned yet, while
\* the calls of all other threads wait.
C18_Witness ==
  /\ \E t \in Threads :
       /\ pc[t] = "complete"
       /\ \A u \in Threads \ {t} : pc[u] = "calling" /\ iter[u] = 0
  /\ once.runs = 1
  /\ once.state = "running"

-----------------------------------------------------------------------------
(* Value witnesses: swift-sys/src/metadata/value_witness/table.rs *)

\* The buffers that may hold an object of the type.
Bufs == 1..NBufs

\* A buffer that holds no valid object.
Invalid == 0

\* values[b] is Invalid or the value of the valid object in b.
IsValid(vals, b) == vals[b] # Invalid

\* destroy(object, self)
ValueWitnessTable_destroy(vals, object) == [vals EXCEPT ![object] = Invalid]

\* initialize_with_copy(dest, src, self)
initialize_with_copy(vals, dest, src) == [vals EXCEPT ![dest] = vals[src]]

\* assign_with_copy(dest, src, self)
assign_with_copy(vals, dest, src) == [vals EXCEPT ![dest] = vals[src]]

\* Faulty variant: the take leaves the source as it was.
initialize_with_take_keepsSource(vals, dest, src) ==
  [vals EXCEPT ![dest] = vals[src]]

\* initialize_with_take(dest, src, self): the src object becomes invalid.
initialize_with_take(vals, dest, src) ==
  [[vals EXCEPT ![dest] = vals[src]] EXCEPT ![src] = Invalid]

\* assign_with_take(dest, src, self): the source object becomes invalid.
assign_with_take(vals, dest, src) ==
  [[vals EXCEPT ![dest] = vals[src]] EXCEPT ![src] = Invalid]

\* The call of an entry on dest and src; the entry returns the dest object.
Call(entry, dest, src) == [op |-> entry, h |-> src, ret |-> dest]

InitValues ==
  /\ values \in [Bufs -> {Invalid} \cup (1..MaxValue)]
  /\ ub = {}
  /\ last = NoOp
  /\ NoLife
  /\ NoProgram
  /\ buffer = Vec_new
  /\ boxes = NoBoxes
  /\ once = NoOnce
  /\ sstr = NoString
  /\ kinds = NoKinds
  /\ arena = NoArena

\* destroy, given a valid object.
Destroy(object) ==
  /\ IsValid(values, object)
  /\ values' = ValueWitnessTable_destroy(values, object)
  /\ last' = Call("destroy", object, object)
  /\ UNCHANGED <<life, ub, retains, releases, pc, iter, buffer, boxes, once, sstr, kinds, arena>>

\* initialize_with_copy, given an invalid dest and a valid src.
InitializeWithCopy(dest, src) ==
  /\ ~IsValid(values, dest)
  /\ IsValid(values, src)
  /\ values' = initialize_with_copy(values, dest, src)
  /\ last' = Call("initialize_with_copy", dest, src)
  /\ UNCHANGED <<life, ub, retains, releases, pc, iter, buffer, boxes, once, sstr, kinds, arena>>

\* assign_with_copy, given a valid dest and a valid src.
AssignWithCopy(dest, src) ==
  /\ IsValid(values, dest)
  /\ IsValid(values, src)
  /\ values' = assign_with_copy(values, dest, src)
  /\ last' = Call("assign_with_copy", dest, src)
  /\ UNCHANGED <<life, ub, retains, releases, pc, iter, buffer, boxes, once, sstr, kinds, arena>>

\* initialize_with_take, given an invalid dest and a valid src.
InitializeWithTake(dest, src) ==
  /\ ~IsValid(values, dest)
  /\ IsValid(values, src)
  /\ values' = initialize_with_take(values, dest, src)
  /\ last' = Call("initialize_with_take", dest, src)
  /\ UNCHANGED <<life, ub, retains, releases, pc, iter, buffer, boxes, once, sstr, kinds, arena>>

\* assign_with_take, given a valid dest and a valid src.
AssignWithTake(dest, src) ==
  /\ IsValid(values, dest)
  /\ IsValid(values, src)
  /\ values' = assign_with_take(values, dest, src)
  /\ last' = Call("assign_with_take", dest, src)
  /\ UNCHANGED <<life, ub, retains, releases, pc, iter, buffer, boxes, once, sstr, kinds, arena>>

NextValues ==
  \/ \E object \in Bufs : Destroy(object)
  \/ \E dest, src \in Bufs : InitializeWithCopy(dest, src)
  \/ \E dest, src \in Bufs : AssignWithCopy(dest, src)
  \/ \E dest, src \in Bufs : InitializeWithTake(dest, src)
  \/ \E dest, src \in Bufs : AssignWithTake(dest, src)

SpecValues == InitValues /\ [][NextValues]_vars

\* C19 as stated: the copy entries leave source and destination valid, the
\* take entries leave the destination valid and the source invalid, destroy
\* leaves its object invalid; initialize_* is applied to an invalid
\* destination, assign_* and destroy to a valid one.
C19_CopyKeepsTakeInvalidates ==
  [][\A dest, src \in Bufs :
       /\ (InitializeWithCopy(dest, src) \/ AssignWithCopy(dest, src)) =>
            (IsValid(values', dest) /\ IsValid(values', src))
       /\ (InitializeWithTake(dest, src) \/ AssignWithTake(dest, src)) =>
            (IsValid(values', dest) /\ ~IsValid(values', src))
       /\ Destroy(dest) => ~IsValid(values', dest)
       /\ (InitializeWithCopy(dest, src) \/ InitializeWithTake(dest, src)) =>
            ~IsValid(values, dest)
       /\ (AssignWithCopy(dest, src) \/ AssignWithTake(dest, src)
             \/ Destroy(dest)) => IsValid(values, dest)]_vars

\* C19 as amended: as stated, where the source of a take is an object other
\* than the destination; the destination then holds the value of the source.
C19_CopyKeepsTakeOfOtherInvalidates ==
  [][\A dest, src \in Bufs :
       /\ (InitializeWithCopy(dest, src) \/ AssignWithCopy(dest, src)) =>
            /\ IsValid(values', dest) /\ IsValid(values', src)
            /\ values'[dest] = values[src] /\ values'[src] = values[src]
       /\ ((InitializeWithTake(dest, src) \/ AssignWithTake(dest, src))
             /\ dest # src) =>
            /\ IsValid(values', dest) /\ ~IsValid(values', src)
            /\ values'[dest] = values[src]
       /\ Destroy(dest) => ~IsValid(values', dest)
       /\ (InitializeWithCopy(dest, src) \/ InitializeWithTake(dest, src)) =>
            (~IsValid(values, dest) /\ dest # src)
       /\ (AssignWithCopy(dest, src) \/ AssignWithTake(dest, src)
             \/ Destroy(dest)) => IsValid(values, dest)]_vars

\* initialize_with_take moved a value into a buffer that was invalid.
C19_Witness ==
  /\ last.op = "initialize_with_take"
  /\ last.ret # last.h
  /\ IsValid(values, last.ret)
  /\ ~IsValid(values, last.h)

-----------------------------------------------------------------------------
(* StaticString: swift/src/string.rs *)

\* The bytes static data is made of: NUL, 'A', and the two code units of
\* U+00E9.
Units == {0, 65, 195, 169}

\* The static byte slices handed to the constructors.
StaticSlices == UNION {[1..n -> Units] : n \in 0..MaxStrLen}

\* u8::is_ascii
u8_is_ascii(b) == b < 128

\* <[u8]>::is_ascii / str::is_ascii
slice_is_ascii(s) == \A i \in 1..Len(s) : u8_is_ascii(s[i])

\* The slice is well-formed UTF-8 (a &str), over the bytes of Units.
IsUtf8(s) ==
  \A i \in 1..Len(s) :
    /\ s[i] = 195 => (i < Len(s) /\ s[i + 1] = 169)
    /\ s[i] = 169 => (i > 1 /\ s[i - 1] = 195)

\* CStr::from_bytes_with_nul(s).ok(): the last byte is the only NUL.
CStr_from_bytes_with_nul(s) ==
  /\ Len(s) > 0
  /\ s[Len(s)] = 0
  /\ \A i \in 1..(Len(s) - 1) : s[i] # 0

\* StaticString::from_str_unchecked; the pointer is the data it points to.
from_str_unchecked(s) ==
  [start_ptr_or_data |-> s, utf8_code_unit_count |-> Len(s), flags |-> 0]

\* StaticString::from_ascii_unchecked
from_ascii_unchecked(s) ==
  [start_ptr_or_data |-> s, utf8_code_unit_count |-> Len(s), flags |-> 2]

\* StaticString::from_str
from_str(s) ==
  IF ~CStr_from_bytes_with_nul(s) THEN None
  ELSE IF slice_is_ascii(s) THEN Some(from_ascii_unchecked(s))
  ELSE Some(from_str_unchecked(s))

\* StaticString::from_ascii
from_ascii(s) ==
  IF ~CStr_from_bytes_with_nul(s) THEN None
  ELSE IF slice_is_ascii(s) THEN Some(from_ascii_unchecked(s))
  ELSE None

\* StaticString::has_ptr_repr: flags & 1 == 0
has_ptr_repr(x) == x.flags % 2 = 0

\* StaticString::is_ascii: flags & 2 != 0
is_ascii(x) == (x.flags \div 2) % 2 # 0

\* slice::from_raw_parts(ptr, len): the len bytes at ptr.
slice_from_raw_parts(ptr, len) == SubSeq(ptr, 1, len)

\* StaticString::to_str_unchecked
to_str_unchecked(x) ==
  slice_from_raw_parts(x.start_ptr_or_data, x.utf8_code_unit_count)

\* StaticString::to_str
to_str(x) == IF has_ptr_repr(x) THEN Some(to_str_unchecked(x)) ELSE None

\* char::encode_utf8, for scalars of one or two code units.
encode_utf8(scalar) ==
  IF scalar < 128 THEN <<scalar>>
  ELSE <<192 + (scalar \div 64), 128 + (scalar % 64)>>

\* StaticString::with_str: the string slice the closure is invoked with.
\* The cast `as u32` keeps every count below 2^32 as it is.
with_str(x) ==
  IF to_str(x).some THEN to_str(x).val
  ELSE encode_utf8(x.utf8_code_unit_count)

\* StaticString::to_str_with_nul_unchecked. `after` is the memory that follows
\* the static slice: a read that runs beyond the slice finds those bytes.
to_str_with_nul_unchecked(x, after) ==
  slice_from_raw_parts(x.start_ptr_or_data \o after,
                       x.utf8_code_unit_count + 1)

\* StaticString::to_str_with_nul
to_str_with_nul(x, after) ==
  IF has_ptr_repr(x) THEN Some(to_str_with_nul_unchecked(x, after)) ELSE None

\* StaticString::with_str_with_nul: the string slice the closure is invoked
\* with.
with_str_with_nul(x, after) ==
  IF to_str_with_nul(x, after).some THEN to_str_with_nul(x, after).val
  ELSE encode_utf8(x.utf8_code_unit_count) \o <<0>>

\* The number of bytes to_str_with_nul_unchecked reads from start_ptr_or_data.
BytesRead(x) == x.utf8_code_unit_count + 1

\* The Unicode scalar values of single-scalar strings: 'A', 'B' and U+00E9.
Scalars == {65, 66, 233}

\* A StaticString that stores a single Unicode scalar value, as the Swift
\* standard library lays it out: the scalar in start_ptr_or_data, the number
\* of its UTF-8 code units in utf8_code_unit_count, bit 0 of flags set and
\* bit 1 set for an ASCII scalar.
unicode_scalar_repr(c) ==
  [start_ptr_or_data |-> c, utf8_code_unit_count |-> Len(encode_utf8(c)),
   flags |-> IF c < 128 THEN 3 ELSE 1]

\* <StaticString as PartialEq>::eq. The casts `as u32` keep every scalar and
\* every count of the model as it is.
StaticString_eq(self, other) ==
  IF to_str(self).some /\ to_str(other).some
    THEN to_str(self).val = to_str(other).val
  ELSE IF to_str(self).some
    THEN to_str(self).val = encode_utf8(other.utf8_code_unit_count)
  ELSE IF to_str(other).some
    THEN encode_utf8(self.utf8_code_unit_count) = to_str(other).val
  ELSE self.start_ptr_or_data = other.start_ptr_or_data

\* <StaticString as Hash>::hash: the bytes fed to the hasher. str::hash
\* writes the bytes of the string slice and then 0xff.
StaticString_hash(x) == with_str(x) \o <<255>>

InitString ==
  /\ sstr = NoString
  /\ kinds = NoKinds
  /\ arena = NoArena
  /\ ub = {}
  /\ last = NoOp
  /\ NoLife
  /\ NoProgram
  /\ buffer = Vec_new
  /\ boxes = NoBoxes
  /\ once = NoOnce
  /\ values = <<>>

\* StaticString::from_ascii(s)
FromAscii(s) ==
  /\ sstr' = from_ascii(s)
  /\ last' = [op |-> "from_ascii", h |-> s, ret |-> from_ascii(s).some]
  /\ UNCHANGED <<life, ub, retains, releases, pc, iter, buffer, boxes, once, values, kinds, arena>>

\* StaticString::from_str(s), s a string slice.
FromStr(s) ==
  /\ IsUtf8(s)
  /\ sstr' = from_str(s)
  /\ last' = [op |-> "from_str", h |-> s, ret |-> from_str(s).some]
  /\ UNCHANGED <<life, ub, retains, releases, pc, iter, buffer, boxes, once, values, kinds, arena>>

\* StaticString::with_str(f) on the string made last.
WithStr ==
  /\ sstr.some
  /\ last' = [op |-> "with_str", h |-> sstr.val.start_ptr_or_data,
              ret |-> with_str(sstr.val)]
  /\ UNCHANGED <<life, ub, retains, releases, pc, iter, ext>>

\* A single-scalar StaticString for c, received from Swift.
FromUnicodeScalar(c) ==
  /\ sstr' = Some(unicode_scalar_repr(c))
  /\ last' = [op |-> "unicodeScalar", h |-> c, ret |-> TRUE]
  /\ UNCHANGED <<life, ub, retains, releases, pc, iter, buffer, boxes, once, values, kinds, arena>>

\* StaticString::to_str() on the string made last.
ToStr ==
  /\ sstr.some
  /\ last' = [op |-> "to_str", h |-> sstr.val.start_ptr_or_data,
              ret |-> to_str(sstr.val)]
  /\ UNCHANGED <<life, ub, retains, releases, pc, iter, ext>>

\* The slice read by to_str_with_nul_unchecked ends beyond the static slice.
ReadsBeyondTheSlice(x) ==
  has_ptr_repr(x) /\ BytesRead(x) > Len(x.start_ptr_or_data)

\* StaticString::to_str_with_nul() on the string made last; after is the
\* byte found behind the static slice.
ToStrWithNul(after) ==
  /\ sstr.some
  /\ last' = [op |-> "to_str_with_nul", h |-> sstr.val.start_ptr_or_data,
              ret |-> to_str_with_nul(sstr.val, <<after>>)]
  /\ ub' = IF ReadsBeyondTheSlice(sstr.val)
             THEN ub \cup {"out_of_bounds"} ELSE ub
  /\ UNCHANGED <<life, retains, releases, pc, iter, ext>>

\* StaticString::with_str_with_nul(f) on the string made last.
WithStrWithNul(after) ==
  /\ sstr.some
  /\ last' = [op |-> "with_str_with_nul", h |-> sstr.val.start_ptr_or_data,
              ret |-> with_str_with_nul(sstr.val, <<after>>)]
  /\ ub' = IF ReadsBeyondTheSlice(sstr.val)
             THEN ub \cup {"out_of_bounds"} ELSE ub
  /\ UNCHANGED <<life, retains, releases, pc, iter, ext>>

\* a == b and a.hash(..), b.hash(..), a the string made last.
Eq(b) ==
  /\ sstr.some
  /\ last' = [op |-> "eq", h |-> b, ret |-> StaticString_eq(sstr.val, b),
              fed |-> <<StaticString_hash(sstr.val), StaticString_hash(b)>>]
  /\ UNCHANGED <<life, ub, retains, releases, pc, iter, ext>>

NextString ==
  \/ \E s \in StaticSlices : FromAscii(s)
  \/ \E s \in StaticSlices : FromStr(s)
  \/ \E c \in Scalars : FromUnicodeScalar(c)
  \/ WithStr
  \/ ToStr
  \/ \E after \in Units : ToStrWithNul(after)
  \/ \E after \in Units : WithStrWithNul(after)
  \/ \E s \in StaticSlices : IsUtf8(s) /\ from_str(s).some /\ Eq(from_str(s).val)
  \/ \E c \in Scalars : Eq(unicode_scalar_repr(c))

SpecString == InitString /\ [][NextString]_vars

\* The code units of the string stored at data: those before the null
\* terminator.
CodeUnits(data) ==
  SubSeq(data, 1, (CHOOSE i \in 1..Len(data) :
                     data[i] = 0 /\ \A j \in 1..(i - 1) : data[j] # 0) - 1)

\* C20: with_str invokes the closure with the UTF-8 code units of the
\* string, without the null terminator, for every StaticString made by
\* from_ascii or from_str from a null-terminated slice.
C20_WithStrExcludesTerminator ==
  [][WithStr => last'.ret = CodeUnits(sstr.val.start_ptr_or_data)]_vars

-----------------------------------------------------------------------------
(* The retain operations, atomic and non-atomic, in a single-threaded program *)

\* The three counters of the object at o.
Counts(o) ==
  [strong |-> heap[o].strong, unowned |-> heap[o].unowned,
   weak |-> heap[o].weak]

\* The runtime state after the step.
Post == [heap |-> heap', slots |-> slots', ub |-> ub']

\* An object held by one Owned handle and by the Unowned handle in cell 1.
InitRetain ==
  /\ heap = [o \in Objs |->
               [NoObject EXCEPT !.alloc = TRUE, !.strong = 1, !.unowned = 1]]
  /\ owned = [o \in Objs |-> 1]
  /\ slots = [w \in Slots |-> NoSlot]
  /\ ub = {}
  /\ unownedH = [u \in UnownedCells |-> IF u = 1 THEN TheObject ELSE NULL]
  /\ weakH = [w \in Slots |-> 0]
  /\ clones = [o \in Objs |-> 0]
  /\ last = NoOp
  /\ NoProgram
  /\ NoExt

\* What a retain operation leaves behind: it returns nothing and makes no handle.
Retained(op, h, n) ==
  /\ last' = [op |-> op, h |-> h, ret |-> n, before |-> Counts(TheObject)]
  /\ UNCHANGED <<owned, unownedH, weakH, clones, aux>>

\* Owned::retain
OwnedRetain(o) ==
  /\ owned[o] > 0
  /\ heap[o].strong < MaxCount
  /\ Commit(Owned_retain(RT, o))
  /\ Retained("Owned::retain", o, 1)

\* Owned::retain_n
OwnedRetainN(o, n) ==
  /\ owned[o] > 0
  /\ heap[o].strong + n <= MaxCount
  /\ Commit(Owned_retain_n(RT, o, n))
  /\ Retained("Owned::retain_n", o, n)

\* Owned::nonatomic_retain
OwnedNonatomicRetain(o) ==
  /\ owned[o] > 0
  /\ heap[o].strong < MaxCount
  /\ Commit(Owned_nonatomic_retain(RT, o))
  /\ Retained("Owned::nonatomic_retain", o, 1)

\* Owned::nonatomic_retain_n
OwnedNonatomicRetainN(o, n) ==
  /\ owned[o] > 0
  /\ heap[o].strong + n <= MaxCount
  /\ Commit(Owned_nonatomic_retain_n(RT, o, n))
  /\ Retained("Owned::nonatomic_retain_n", o, n)

\* Unowned::retain
UnownedRetain(u) ==
  /\ unownedH[u] # NULL
  /\ Commit(Unowned_retain(RT, u))
  /\ Retained("Unowned::retain", u, 1)

\* Unowned::retain_n
UnownedRetainN(u, n) ==
  /\ unownedH[u] # NULL
  /\ Commit(Unowned_retain_n(RT, u, n))
  /\ Retained("Unowned::retain_n", u, n)

\* Unowned::nonatomic_retain
UnownedNonatomicRetain(u) ==
  /\ unownedH[u] # NULL
  /\ Commit(Unowned_nonatomic_retain(RT, u))
  /\ Retained("Unowned::nonatomic_retain", u, 1)

\* Unowned::nonatomic_retain_n
UnownedNonatomicRetainN(u, n) ==
  /\ unownedH[u] # NULL
  /\ Commit(Unowned_nonatomic_retain_n(RT, u, n))
  /\ Retained("Unowned::nonatomic_retain_n", u, n)

\* Unowned::nonatomic_clone: the clone of the handle in cell u goes to cell v.
UnownedNonatomicClone(u, v) ==
  /\ unownedH[u] # NULL
  /\ unownedH[v] = NULL
  /\ Commit(Unowned_nonatomic_clone(RT, u))
  /\ unownedH' = [unownedH EXCEPT ![v] = unownedH[u]]
  /\ last' = NoOp
  /\ UNCHANGED <<owned, weakH, clones, aux>>

NextRetain ==
  \/ \E o \in Objs : OwnedRetain(o)
  \/ \E o \in Objs, n \in 0..MaxN : OwnedRetainN(o, n)
  \/ \E o \in Objs : OwnedNonatomicRetain(o)
  \/ \E o \in Objs, n \in 0..MaxN : OwnedNonatomicRetainN(o, n)
  \/ \E o \in Objs : OwnedClone(o)
  \/ \E o \in Objs : OwnedNonatomicClone(o)
  \/ \E o \in Objs : OwnedDrop(o)
  \/ \E u \in UnownedCells : UnownedRetain(u)
  \/ \E u \in UnownedCells, n \in U32 : UnownedRetainN(u, n)
  \/ \E u \in UnownedCells : UnownedNonatomicRetain(u)
  \/ \E u \in UnownedCells, n \in U32 : UnownedNonatomicRetainN(u, n)
  \/ \E u, v \in UnownedCells : UnownedClone(u, v)
  \/ \E u, v \in UnownedCells : UnownedNonatomicClone(u, v)
  \/ \E u \in UnownedCells : UnownedDrop(u)

SpecRetain == InitRetain /\ [][NextRetain]_vars

-----------------------------------------------------------------------------
(* The conversions between owning handles: swift/src/object *)

\* The owning handles of the object at o by type: counted raw pointers,
\* Owned, AnyObject and user types that implement Object.
Handles(o) ==
  [raw |-> kinds[o].raw, owned |-> owned[o], any |-> kinds[o].any,
   typed |-> kinds[o].typed]

\* What a conversion acts on: the runtime state and the handles of the object.
Conv(o) == [rt |-> RT, h |-> Handles(o)]

\* A value is moved into a value of another type: no code of the handle runs.
Moved(c, from, to) == [c EXCEPT !.h[from] = @ - 1, !.h[to] = @ + 1]

\* Owned::from_ptr: wraps the pointer.
Owned_from_ptr(c) == Moved(c, "raw", "owned")

\* AnyObject::from_ptr: Self(Owned::from_ptr(ptr))
AnyObject_from_ptr(c) == Moved(Owned_from_ptr(c), "owned", "any")

\* impl From<Owned> for AnyObject: Self(owned)
AnyObject_from_Owned(c) == Moved(c, "owned", "any")

\* impl From<AnyObject> for Owned: object.0
Owned_from_AnyObject(c) == Moved(c, "any", "owned")

\* mem::transmute_copy: a bitwise copy of the handle as a handle of type to.
transmute_copy(c, to) == [c EXCEPT !.h[to] = @ + 1]

\* mem::forget: the handle is gone and its drop does not run.
mem_forget(c, from) == [c EXCEPT !.h[from] = @ - 1]

\* The handle goes out of scope: the drop of the Owned inside it runs.
drop_in_place(c, p, from) ==
  [rt |-> Owned_drop(c.rt, p), h |-> [c.h EXCEPT ![from] = @ - 1]]

\* Faulty variant: self is dropped at the end of the call instead of forgotten.
into_any_object_dropsSelf(c, p) ==
  drop_in_place(transmute_copy(c, "any"), p, "typed")

\* Object::into_any_object: transmute_copy(&self), then mem::forget(self).
into_any_object(c, p) == mem_forget(transmute_copy(c, "any"), "typed")

CommitConv(c, o) ==
  /\ Commit(c.rt)
  /\ owned' = [owned EXCEPT ![o] = c.h.owned]
  /\ kinds' = [kinds EXCEPT ![o] =
                 [raw |-> c.h.raw, any |-> c.h.any, typed |-> c.h.typed]]

\* What a conversion of a handle of o leaves behind.
Converted(op, o) ==
  /\ last' = [op |-> op, h |-> o, ret |-> NULL,
              before |-> [counts |-> Counts(o), handles |-> Handles(o),
                          log |-> heap[o].log]]
  /\ UNCHANGED <<unownedH, weakH, clones, retains, releases, pc, iter,
                 buffer, boxes, once, values, sstr, arena>>

\* swift_allocObject returns a pointer that carries one strong reference.
AllocRaw(o) ==
  /\ ~heap[o].alloc
  /\ Commit(swift_allocObject(RT, o))
  /\ kinds' = [kinds EXCEPT ![o].raw = 1]
  /\ last' = NoOp
  /\ UNCHANGED <<owned, unownedH, weakH, clones, retains, releases, pc, iter,
                 buffer, boxes, once, values, sstr, arena>>

OwnedFromPtr(o) ==
  /\ kinds[o].raw > 0
  /\ CommitConv(Owned_from_ptr(Conv(o)), o)
  /\ Converted("Owned::from_ptr", o)

AnyObjectFromPtr(o) ==
  /\ kinds[o].raw > 0
  /\ CommitConv(AnyObject_from_ptr(Conv(o)), o)
  /\ Converted("AnyObject::from_ptr", o)

AnyObjectFromOwned(o) ==
  /\ owned[o] > 0
  /\ CommitConv(AnyObject_from_Owned(Conv(o)), o)
  /\ Converted("AnyObject::from(Owned)", o)

OwnedFromAnyObject(o) ==
  /\ kinds[o].any > 0
  /\ CommitConv(Owned_from_AnyObject(Conv(o)), o)
  /\ Converted("Owned::from(AnyObject)", o)

\* A user type that implements Object is a wrapper of an AnyObject:
\* struct MyObject(swift::AnyObject).
MyObjectNew(o) ==
  /\ kinds[o].any > 0
  /\ CommitConv(Moved(Conv(o), "any", "typed"), o)
  /\ Converted("MyObject", o)

IntoAnyObject(o) ==
  /\ kinds[o].typed > 0
  /\ CommitConv(into_any_object(Conv(o), o), o)
  /\ Converted("Object::into_any_object", o)

\* An AnyObject goes out of scope.
AnyObjectDrop(o) ==
  /\ kinds[o].any > 0
  /\ CommitConv(drop_in_place(Conv(o), o, "any"), o)
  /\ last' = NoOp
  /\ UNCHANGED <<unownedH, weakH, clones, retains, releases, pc, iter,
                 buffer, boxes, once, values, sstr, arena>>

NextConvert ==
  \/ \E o \in Objs : AllocRaw(o)
  \/ \E o \in Objs : OwnedFromPtr(o)
  \/ \E o \in Objs : AnyObjectFromPtr(o)
  \/ \E o \in Objs : AnyObjectFromOwned(o)
  \/ \E o \in Objs : OwnedFromAnyObject(o)
  \/ \E o \in Objs : MyObjectNew(o)
  \/ \E o \in Objs : IntoAnyObject(o)
  \/ \E o \in Objs : AnyObjectDrop(o)
  \/ \E o \in Objs : OwnedClone(o)
  \/ \E o \in Objs : OwnedDrop(o)
  \/ \E u \in UnownedCells, o \in Objs : UnownedAdopt(u, o)
  \/ \E w \in Slots, o \in Objs : WeakInit(w, o)

SpecConvert == Init /\ [][NextConvert]_vars

\* The conversions between handle types, with the type of the handle that
\* goes in and the type of the handle that comes out.
Conversions ==
  [op \in {"Owned::from_ptr", "AnyObject::from(Owned)",
           "Owned::from(AnyObject)", "Object::into_any_object"} |->
     CASE op = "Owned::from_ptr" -> <<"raw", "owned">>
       [] op = "AnyObject::from(Owned)" -> <<"owned", "any">>
       [] op = "Owned::from(AnyObject)" -> <<"any", "owned">>
       [] op = "Object::into_any_object" -> <<"typed", "any">>]

\* C22: Owned::from_ptr, From<Owned> for AnyObject, From<AnyObject> for Owned
\* and Object::into_any_object retain and release nothing: the strong,
\* unowned and weak counts of the object are what they were, no teardown
\* step ran, and one handle of the result type stands for the one handle
\* that went in.
C22_ConversionsKeepCountsAndOwner ==
  last.op \in DOMAIN Conversions =>
    /\ Counts(last.h) = last.before.counts
    /\ heap[last.h].log = last.before.log
    /\ Handles(last.h) =
         [last.before.handles EXCEPT ![Conversions[last.op][1]] = @ - 1,
                                     ![Conversions[last.op][2]] = @ + 1]

C22_Witness ==
  /\ last.op = "Object::into_any_object"
  /\ Counts(last.h) = [strong |-> 2, unowned |-> 1, weak |-> 1]
  /\ Handles(last.h) = [raw |-> 0, owned |-> 1, any |-> 1, typed |-> 0]
  /\ last.before.handles.typed = 1

-----------------------------------------------------------------------------
(* ObjectIdentifier: swift/src/object/identifier.rs *)

\* The allocator hands out an address no live allocation occupies; the new
\* class instance is the next one made and has retain count 1.
arena_alloc(m, a) ==
  [m EXCEPT !.made = @ + 1,
            !.mem[a] = [inst |-> m.made + 1, strong |-> 1]]

\* The AnyObject is cloned: a retain.
arena_retain(m, a) == [m EXCEPT !.mem[a].strong = @ + 1]

\* The AnyObject is dropped: a release, which deallocates the instance when
\* it was the last handle and gives the address back to the allocator.
arena_release(m, a) ==
  IF m.mem[a].strong = 1
    THEN [m EXCEPT !.mem[a] = [inst |-> 0, strong |-> 0]]
    ELSE [m EXCEPT !.mem[a].strong = @ - 1]

\* Faulty variant: the identifier is the address of the metadata of the
\* class, which all its instances share.
init_object_ofMetadata(m, a) == [ptr |-> NULL, of |-> m.mem[a].inst]

\* ObjectIdentifier::init_object: Self(object.0.as_non_null().cast()), the
\* address of the object; `of` records the class instance it was made from.
init_object(m, a) == [ptr |-> a, of |-> m.mem[a].inst]

\* #[derive(PartialEq)] on ObjectIdentifier(NonNull<c_void>)
ObjectIdentifier_eq(x, y) == x.ptr = y.ptr

\* impl From<&AnyObject> for ObjectIdentifier
ObjectIdentifier_from_ref(m, a) == [m EXCEPT !.ids = @ \cup {init_object(m, a)}]

\* impl From<AnyObject> for ObjectIdentifier: Self::from(&object), after
\* which the object, passed by value, is dropped.
ObjectIdentifier_from(m, a) == arena_release(ObjectIdentifier_from_ref(m, a), a)

\* The instance at a is allocated.
Live(a) == arena.mem[a].inst # 0

InitArena ==
  /\ NoLife
  /\ ub = {}
  /\ last = NoOp
  /\ NoProgram
  /\ buffer = Vec_new
  /\ boxes = NoBoxes
  /\ once = NoOnce
  /\ values = <<>>
  /\ sstr = NoString
  /\ kinds = NoKinds
  /\ arena = NoArena

ArenaStep(op, a) ==
  /\ last' = [op |-> op, h |-> a, ret |-> NULL]
  /\ UNCHANGED <<life, ub, retains, releases, pc, iter, buffer, boxes, once,
                 values, sstr, kinds>>

\* A class instance is allocated and held by an AnyObject.
ArenaAlloc(a) ==
  /\ ~Live(a)
  /\ arena.made < MaxInstances
  /\ arena' = arena_alloc(arena, a)
  /\ ArenaStep("alloc", a)

\* AnyObject::clone
ArenaClone(a) ==
  /\ Live(a)
  /\ arena.mem[a].strong < MaxStrong
  /\ arena' = arena_retain(arena, a)
  /\ ArenaStep("clone", a)

\* An AnyObject goes out of scope.
ArenaDrop(a) ==
  /\ Live(a)
  /\ arena' = arena_release(arena, a)
  /\ ArenaStep("drop", a)

\* ObjectIdentifier::from(&object)
IdentifierFromRef(a) ==
  /\ Live(a)
  /\ arena' = ObjectIdentifier_from_ref(arena, a)
  /\ ArenaStep("ObjectIdentifier::from(&AnyObject)", a)

\* ObjectIdentifier::from(object)
IdentifierFrom(a) ==
  /\ Live(a)
  /\ arena' = ObjectIdentifier_from(arena, a)
  /\ ArenaStep("ObjectIdentifier::from(AnyObject)", a)

NextArena ==
  \/ \E a \in Addrs : ArenaAlloc(a)
  \/ \E a \in Addrs : ArenaClone(a)
  \/ \E a \in Addrs : ArenaDrop(a)
  \/ \E a \in Addrs : IdentifierFromRef(a)
  \/ \E a \in Addrs : IdentifierFrom(a)

SpecArena == InitArena /\ [][NextArena]_vars

\* The class instance the identifier was made from is still allocated.
StillAllocated(x) == \E a \in Addrs : arena.mem[a].inst = x.of

-----------------------------------------------------------------------------
(* The end of the lifetime of an object and of a weak slot *)

\* A Strong, Unowned or Weak reference to o is outstanding.
Referenced(o) ==
  \/ owned[o] > 0
  \/ \E u \in UnownedCells : unownedH[u] = o
  \/ \E w \in Slots : weakH[w] > 0 /\ slots[w].tgt = o

\* C24: once every Strong, Unowned and Weak reference to an object was
\* released, in whatever order, its payload was destroyed exactly once and
\* its allocation was returned to the allocator exactly once; the
\* allocation is returned no earlier than the release of the last reference.
C24_FreedOnceAtLastRelease ==
  \A o \in Objs :
    /\ heap[o].freed <= 1
    /\ heap[o].freed = 1 => ~Referenced(o)
    /\ (heap[o].alloc /\ ~Referenced(o)) =>
         (heap[o].destroyed = 1 /\ heap[o].freed = 1)

\* C25: the deallocating flag is set only at strong count 1, by
\* set_deallocating of the sole owner or by the release that brings the
\* count to zero; once set it is never cleared; and from then on every
\* Weak::load and Weak::take on a slot bound to the object returns None.
C25_DeallocatingFlagIsMonotonic ==
  [][\A o \in Objs :
       /\ heap[o].flag => heap'[o].flag
       /\ (~heap[o].flag /\ heap'[o].flag) =>
            /\ heap[o].strong = 1
            /\ heap'[o].strong = 0 \/ (heap'[o].strong = 1 /\ owned[o] = 1)
       /\ \A w \in Slots :
            (/\ last'.op \in {"WeakLoad", "WeakTake"}
             /\ last'.h = w
             /\ slots[w].st = "bound"
             /\ slots[w].tgt = o
             /\ heap[o].flag) =>
              (last'.ret = NULL /\ owned' = owned /\ heap'[o].strong = heap[o].strong)
    ]_vars

\* A take on a slot of an object whose sole owner had set the flag.
C25_Witness ==
  /\ last.op = "WeakTake"
  /\ last.ret = NULL
  /\ \E o \in Objs :
       /\ heap[o].log = <<"flag">>
       /\ heap[o].flag
       /\ owned[o] = 2
       /\ heap[o].strong = 2

\* C26: Weak::load leaves the Weak handle live, the slot bound to its
\* target and the weak and unowned counts of the target as they were; when
\* it returns Some, the Owned wraps the target, whose strong count is higher
\* by exactly 1; when it returns None, no counter of the object changed.
C26_LoadBorrowsTheSlot ==
  [][\A w \in Slots :
       (last'.op = "WeakLoad" /\ last'.h = w) =>
         LET o == slots[w].tgt IN
           /\ weakH' = weakH
           /\ slots' = slots
           /\ slots[w].st = "bound"
           /\ heap'[o].weak = heap[o].weak
           /\ heap'[o].unowned = heap[o].unowned
           /\ last'.ret # NULL =>
                /\ last'.ret = o
                /\ heap'[o].strong = heap[o].strong + 1
                /\ owned' = [owned EXCEPT ![o] = @ + 1]
           /\ last'.ret = NULL => (heap' = heap /\ owned' = owned)
    ]_vars

\* One load returned Some next to a second bound slot of the same object.
C26_Witness ==
  /\ last.op = "WeakLoad"
  /\ last.ret \in Objs
  /\ weakH[last.h] = 1
  /\ slots[last.h] = [st |-> "bound", tgt |-> last.ret]
  /\ heap[last.ret].weak = 2
  /\ heap[last.ret].unowned = 1
  /\ heap[last.ret].strong = 2
  /\ owned[last.ret] = 2

-----------------------------------------------------------------------------
(* The length and capacity of the buffer of demangle_into *)

\* C28: for a buffer of length L <= capacity C and a demangled length D, a
\* successful demangle_into ends with buffer length L + D and capacity of
\* at least L + D: the length is never set beyond the capacity.
C28_LengthWithinCapacity ==
  (last.op = "demangle_into" /\ last.ret.ok) =>
    /\ last.before.len <= last.before.cap
    /\ buffer.len = last.before.len + Len(Demangled(last.h))
    /\ buffer.cap >= buffer.len

-----------------------------------------------------------------------------
(* The runtime operations applied to a weak slot *)

\* C29: a weak slot is invalidated exactly once: Weak::take, which leaves
\* the slot uninitialized by swift_weakTakeStrong, applies no further
\* runtime operation to it, and the drop of a Weak handle applies
\* swift_weakDestroy to its bound slot once, which lowers the weak count of
\* the target by exactly 1.
C29_SlotInvalidatedOnce ==
  [][\A w \in Slots :
       /\ (last'.op = "WeakTake" /\ last'.h = w) =>
            /\ slots[w].st = "bound"
            /\ slots'[w].st = "uninit"
            /\ "uninit_slot" \in ub' => "uninit_slot" \in ub
            /\ heap'[slots[w].tgt].weak = heap[slots[w].tgt].weak - 1
       /\ WeakDrop(w) =>
            /\ slots[w].st = "bound"
            /\ slots'[w].st = "uninit"
            /\ ub' = ub
            /\ heap'[slots[w].tgt].weak = heap[slots[w].tgt].weak - 1
    ]_vars

-----------------------------------------------------------------------------
(* MetadataKind: swift-sys/src/metadata/kind.rs *)

RECURSIVE BitOr(_, _)
\* a | b on unsigned integers
BitOr(a, b) ==
  IF a = 0 THEN b
  ELSE IF b = 0 THEN a
  ELSE (IF a % 2 = 1 \/ b % 2 = 1 THEN 1 ELSE 0) + 2 * BitOr(a \div 2, b \div 2)

NON_TYPE_FLAG == 1024

NON_HEAP_FLAG == 512

RUNTIME_PRIVATE_FLAG == 100

\* The largest metadata kind value that is no isa pointer.
LAST_ENUMERATED == 2047

\* The constants that kinds! { .. } defines, by name.
MetadataKind ==
  [CLASS |-> 0,
   STRUCT |-> BitOr(0, NON_HEAP_FLAG),
   ENUM |-> BitOr(1, NON_HEAP_FLAG),
   OPTIONAL |-> BitOr(2, NON_HEAP_FLAG),
   FOREIGN_CLASS |-> BitOr(3, NON_HEAP_FLAG),
   OPAQUE |-> BitOr(BitOr(0, RUNTIME_PRIVATE_FLAG), NON_HEAP_FLAG),
   TUPLE |-> BitOr(BitOr(1, RUNTIME_PRIVATE_FLAG), NON_HEAP_FLAG),
   FUNCTION |-> BitOr(BitOr(2, RUNTIME_PRIVATE_FLAG), NON_HEAP_FLAG),
   EXISTENTIAL |-> BitOr(BitOr(3, RUNTIME_PRIVATE_FLAG), NON_HEAP_FLAG),
   METATYPE |-> BitOr(BitOr(4, RUNTIME_PRIVATE_FLAG), NON_HEAP_FLAG),
   OBJC_CLASS_WRAPPER |-> BitOr(BitOr(5, RUNTIME_PRIVATE_FLAG), NON_HEAP_FLAG),
   EXISTENTIAL_METATYPE |-> BitOr(BitOr(6, RUNTIME_PRIVATE_FLAG), NON_HEAP_FLAG),
   HEAP_LOCAL_VARIABLE |-> BitOr(0, NON_TYPE_FLAG),
   HEAP_GENERIC_LOCAL_VARIABLE |-> BitOr(BitOr(0, NON_TYPE_FLAG), RUNTIME_PRIVATE_FLAG),
   ERROR_OBJECT |-> BitOr(BitOr(1, NON_TYPE_FLAG), RUNTIME_PRIVATE_FLAG)]

\* The predicate the macro generates for the constant $kind:
\* self.0 == Self::$kind.0
is_kind(name, kind) == kind = MetadataKind[name]

\* The constants whose is_<kind> predicate is true of the kind value.
TruePredicates(kind) == {name \in DOMAIN MetadataKind : is_kind(name, kind)}

\* The kind values looked at: the enumerated ones and a few isa pointers.
KindValues == 0..(LAST_ENUMERATED + MaxIsa)

InitKind ==
  /\ NoLife
  /\ ub = {}
  /\ last = NoOp
  /\ NoProgram
  /\ NoExt

\* Every is_<kind> predicate is called on MetadataKind(kind).
Classify(kind) ==
  /\ last' = [op |-> "MetadataKind", h |-> kind, ret |-> TruePredicates(kind)]
  /\ UNCHANGED <<life, ub, retains, releases, pc, iter, ext>>

NextKind == \E kind \in KindValues : Classify(kind)

SpecKind == InitKind /\ [][NextKind]_vars

\* C30: the named MetadataKind constants are pairwise distinct: no kind
\* value is the value of two of them, so at most one of the is_<kind>
\* predicates is true of any kind value.
C30_KindsPairwiseDistinct ==
  last.op = "MetadataKind" =>
    /\ \A a, b \in DOMAIN MetadataKind :
         (MetadataKind[a] = last.h /\ MetadataKind[b] = last.h) => a = b
    /\ Cardinality(last.ret) <= 1

-----------------------------------------------------------------------------
(* The count Unowned::retain_n hands to the runtime *)

\* C31: for every u32 n, Unowned::retain_n(n) and
\* Unowned::nonatomic_retain_n(n) pass the runtime a count equal to n, never
\* a negative one, and the unowned count of the object rises by exactly n.
C31_CountPassedIsN ==
  last.op \in {"Unowned::retain_n", "Unowned::nonatomic_retain_n"} =>
    /\ as_c_int(last.ret) >= 0
    /\ as_c_int(last.ret) = last.ret
    /\ heap[unownedH[last.h]].unowned = last.before.unowned + last.ret

-----------------------------------------------------------------------------
(* The slices a StaticString hands out *)

\* The string slice handed out by the last step.
Handed ==
  IF last.op \in {"to_str", "to_str_with_nul"} THEN last.ret.val ELSE last.ret

\* C32: for a StaticString built by from_str or from_ascii from a
\* null-terminated static slice of n bytes, every slice handed out by to_str,
\* to_str_with_nul, with_str and with_str_with_nul has a length of at most n
\* and no byte beyond the end of the static slice is read.
C32_SlicesLieInsideTheOriginal ==
  (/\ sstr.some
   /\ has_ptr_repr(sstr.val)
   /\ last.op \in {"to_str", "to_str_with_nul", "with_str",
                   "with_str_with_nul"}) =>
    /\ Len(Handed) <= Len(sstr.val.start_ptr_or_data)
    /\ "out_of_bounds" \notin ub

-----------------------------------------------------------------------------
(* Equality and hashing of StaticStrings *)

\* C33: in each of the four combinations of pointer and single-scalar
\* representation, a == b holds exactly when with_str yields the same text
\* for a and for b, and a == b implies that a and b feed the same bytes to
\* the hasher.
C33_EqualityIsEqualityOfText ==
  last.op = "eq" =>
    /\ last.ret <=> (with_str(sstr.val) = with_str(last.h))
    /\ last.ret => last.fed[1] = last.fed[2]

=============================================================================
